---- MODULE Spec2Model ----
(***************************************************************************)
(* AI Bookmark Brain: the alarm-driven summarization (enrichment) queue.   *)
(*                                                                         *)
(* The model follows src/src/services/sync/summarization-queue.ts, the     *)
(* repositories of src/src/services/database.service.ts, the SQL of        *)
(* src/src/database/schema.ts and the background entry point               *)
(* (src/unnamed/part_016).  Every await of the source is a point where      *)
(* another handler of the service worker may run, so each handler is cut   *)
(* into steps at its awaits; a step groups the statements that are issued  *)
(* back to back to the (serialized) storage connection.                    *)
(*                                                                         *)
(* Storage calls themselves are taken to succeed, except where SQL         *)
(* semantics make them fail (the UNIQUE constraint of ai_summaries).       *)
(* The columns and tables that never decide control flow in the queue      *)
(* (page_content, error_message, timestamps, tags, sync_log, the UI-facing *)
(* syncStatus counters, the broadcast notification) are left out.          *)
(***************************************************************************)
EXTENDS Integers, Sequences, FiniteSets, TLC

\* ---------------------------------------------------------------- bounds
NumBookmarks == 2      \* bookmarks in the collection
MaxRuns      == 2      \* async invocations that may be in flight at once
MaxRetryCount == 2     \* no restart is explored once a retry_count reached this

\* ------------------------------------------------------ program constants
CHUNK_SIZE  == 2       \* bookmarks per alarm
MAX_RETRIES == 3       \* literal 3 of `newRetryCount >= 3` and `retry_count < 3`

Bookmarks == 1..NumBookmarks
Runs      == 1..MaxRuns

VARIABLES
    \* table bookmarks (one row per id; created_at ascending with id)
    status,         \* status column
    retryCount,     \* retry_count column
    \* table ai_summaries: number of rows per bookmark_id
    summaries,
    \* chrome.storage.session { summarizing }
    summarizing,
    \* chrome.alarms: the one-shot alarm 'summarize-next' is scheduled
    alarm,
    \* position of initializeAsync
    initPc,
    \* in-flight async invocations (processNextBatch / summarizeBookmarkById)
    pc,             \* position of each invocation
    kind,           \* entry point of each invocation
    pending,        \* rows read by findPending / findById (stale snapshots)
    results,        \* return values of summarizeBookmark so far
    \* history of the environment
    analyzingAtStart, \* rows in 'analyzing' when the worker last started,
                      \* until the recovery pass has run
    resumed,        \* the worker last started with the flag set, and no
                    \* request or bookmark event has arrived since
    stopped,        \* stopSummarizationQueue has completed and
                    \* startSummarizationQueue has not been called since
    \* table bookmarks joined with categories, as GET_ALL_FOR_INDEX projects it
    dbBookmarks,
    \* the `require` of CategoryRepository._invalidateIndex resolves in this build
    requireAvailable,
    \* storage item searchStrategyOrder: the saved { id, enabled } list
    searchStrategyOrder,
    \* search-engine.ts module state
    searchIndex,          \* cached projection
    fuseInstance,         \* the Fuse.js instance: the collection it indexes
    lastIndexUpdate,
    activeStrategies,
    lastStrategiesUpdate,
    \* frecency: selections recorded per bookmark id
    frecency,
    \* Date.now()
    now,
    \* search() calls in flight
    callPc,         \* position of each call
    callNow,        \* `now` captured by refreshIndex
    callOld,        \* the call began before the latest category mutation
    callFailed,     \* the call's getAllForIndex() threw
    \* the latest search that returned: its inputs and its output
    query,
    limitOption,
    fuseScore,      \* Fuse.js score per bookmark id for the effective query
    pinyinHits,     \* <<id, field>> pairs that pinyin-match the effective query
    caught,         \* the sub-steps of the call that threw: "frecency", "history"
    sortedResults,  \* after the pinned/score sort and the slice
    finalResults,   \* what search() returns
    \* history of the index cache
    lastReloadAt,   \* time of the latest reload since the latest invalidation
    staleServed,    \* searches begun after the latest category mutation that
                    \* were answered from an index older than it
    \* the search overlay (useSearch)
    uiQuery,            \* `query`: [seq, kind], seq counts the changes of the field
    debounceTimer,      \* a timeout is pending
    requests,           \* messages sent whose response has not arrived, oldest first
    uiResults,          \* `results`: seq of the query they answer, 0 for []
    uiHistoryResults,   \* `historyResults`: likewise
    searchMode,
    isLoading,
    lastIssued,         \* seq of the query of the latest performSearch
    \* table bookmarks: the columns of the repair scan
    pageContent,        \* page_content
    fetchFailedAt,      \* fetch_failed_at is not NULL (the dead-link mark)
    \* refetchGarbledContent
    repairPc,
    allBookmarks,       \* rows read when the scan starts
    needsRefetchList,
    refetchIndex,       \* position of the second loop in needsRefetchList
    newContent,
    repairResult,       \* `result`: ids refetched; errors as [id, reason]
    progress,           \* the REFETCH_GARBLED_PROGRESS messages of the scan, in order
    scans,              \* scans started
    \* summarizeBookmark, as far as the page is concerned
    enrichPc,
    enrichBookmark,     \* the row handed to summarizeBookmark
    \* calls of fetchPageContentSmart that have not returned: [flow, id]
    fetching,
    \* content-fetcher.service.ts
    activeTabCount,
    openTabs,           \* fetches whose tab is open
    fetchPc,
    fetchUrl,           \* the page behind the url of the call
    fetchReturn,        \* what fetchPageContentSmart returns
    \* the garbled-content detector
    detected,           \* the text handed to detectGarbledContent
    detection,          \* its answer
    \* the toggle-search command (background) and the overlay (content script)
    isToggling,
    pendingToggle,
    togglePc,
    toggleTimers,       \* timeouts set by the finally block that have not fired
    unserved,           \* a call was buffered and no scheduled toggle has started since
    isVisible,
    isDev               \* import.meta.env.DEV of the build

dbVars  == <<status, retryCount, summaries>>
runVars == <<pc, kind, pending, results>>
envVars == <<analyzingAtStart, resumed, stopped>>
queueVars == <<dbVars, summarizing, alarm, initPc, runVars, envVars>>
cacheVars == <<searchIndex, fuseInstance, lastIndexUpdate, activeStrategies,
              lastStrategiesUpdate>>
callVars  == <<callPc, callNow, callOld, callFailed>>
inputVars == <<query, limitOption, fuseScore, pinyinHits, caught>>
outputVars == <<sortedResults, finalResults>>
historyVars == <<lastReloadAt, staleServed>>
searchVars == <<dbBookmarks, requireAvailable, searchStrategyOrder, cacheVars,
                frecency, now, callVars, inputVars, outputVars, historyVars>>
overlayVars == <<uiQuery, debounceTimer, requests, uiResults, uiHistoryResults,
                 searchMode, isLoading, lastIssued>>
contentVars == <<pageContent, fetchFailedAt>>
scanVars == <<repairPc, allBookmarks, needsRefetchList, refetchIndex, newContent,
              repairResult, progress, scans>>
enrichVars == <<enrichPc, enrichBookmark>>
repairVars == <<contentVars, scanVars, enrichVars, fetching>>
fetcherVars == <<activeTabCount, openTabs, fetchPc, fetchUrl, fetchReturn>>
detectorVars == <<detected, detection>>
toggleVars == <<isToggling, pendingToggle, togglePc, toggleTimers, unserved, isVisible, isDev>>
otherVars == <<detectorVars, toggleVars>>
restVars == <<overlayVars, repairVars, fetcherVars, otherVars>>
vars    == <<queueVars, searchVars, restVars>>

\* ------------------------------------------------------------ helpers
Min(a, b) == IF a < b THEN a ELSE b

RECURSIVE SortedSeq(_)
SortedSeq(S) ==
    IF S = {} THEN <<>>
    ELSE LET m == CHOOSE x \in S : \A y \in S : x <= y
         IN  <<m>> \o SortedSeq(S \ {m})

Take(s, n) == SubSeq(s, 1, Min(n, Len(s)))

\* lowest free invocation slot (slot numbers carry no meaning)
IdleRuns == {r \in Runs : pc[r] = "idle"}
FreeRun(r) == r \in IdleRuns /\ \A q \in IdleRuns : r <= q

\* ------------------------------------------------------- storage layer
\* mapRowToBookmark: the fields of a row that summarizeBookmark reads later
mapRowToBookmark(b) ==
    [id |-> b, retryCount |-> retryCount[b]]

\* GET_BOOKMARKS_PENDING: WHERE status = 'pending' OR (status = 'failed' AND retry_count < 3)
Selectable(b) ==
    status[b] = "pending" \/ (status[b] = "failed" /\ retryCount[b] < MAX_RETRIES)

\* BookmarkRepository.findPending(limit): ORDER BY created_at ASC LIMIT ?
findPending(limit) ==
    LET ids == Take(SortedSeq({b \in Bookmarks : Selectable(b)}), limit)
    IN  [k \in 1..Len(ids) |-> mapRowToBookmark(ids[k])]

\* variant: counts every row the chunk fetch would still select
countSelectable == Cardinality({b \in Bookmarks : Selectable(b)})

\* BookmarkRepository.countPending: GET_PENDING_COUNT
countPending == Cardinality({b \in Bookmarks : status[b] = "pending"})

\* BookmarkRepository.updateStatus: UPDATE_BOOKMARK_STATUS writes status,
\* error_message and timestamps; retry_count is not among its columns
updateStatus(id, st) ==
    /\ status' = [status EXCEPT ![id] = st]
    /\ retryCount' = retryCount

\* BookmarkRepository.resetAnalyzingToRetry
resetAnalyzingToRetry ==
    /\ status' = [b \in Bookmarks |->
                    IF status[b] = "analyzing" THEN "pending" ELSE status[b]]
    /\ retryCount' = [b \in Bookmarks |->
                    IF status[b] = "analyzing" THEN retryCount[b] + 1 ELSE retryCount[b]]

\* ------------------------------------------------- invocation bookkeeping
Current(r) == pending[r][Len(results[r]) + 1]

\* the invocation returns to its caller; initializeAsync awaits its own batch
Return(r) ==
    /\ pc' = [pc EXCEPT ![r] = "idle"]
    /\ kind' = [kind EXCEPT ![r] = "none"]
    /\ pending' = [pending EXCEPT ![r] = <<>>]
    /\ results' = [results EXCEPT ![r] = <<>>]
    /\ initPc' = IF kind[r] = "init" THEN "reset" ELSE initPc

Call(r, k, at) ==
    /\ pc' = [pc EXCEPT ![r] = at]
    /\ kind' = [kind EXCEPT ![r] = k]

\* summarizeBookmark returned `ret`: next bookmark of the for loop, or the
\* code after the loop (processNextBatch), or the caller (summarizeBookmarkById)
Returned(r, ret) ==
    IF Len(results[r]) + 1 < Len(pending[r])
    THEN /\ results' = [results EXCEPT ![r] = Append(@, ret)]
         /\ pc' = [pc EXCEPT ![r] = "analyzing"]
         /\ UNCHANGED <<kind, pending, initPc>>
    ELSE IF kind[r] = "byId"
         THEN Return(r)
         ELSE /\ results' = [results EXCEPT ![r] = Append(@, ret)]
              /\ pc' = [pc EXCEPT ![r] = "count"]
              /\ UNCHANGED <<kind, pending, initPc>>

\* the status written by the catch block of summarizeBookmark
FailureStatus(snapshotRetryCount) ==
    LET newRetryCount == snapshotRetryCount + 1
    IN  IF newRetryCount >= MAX_RETRIES THEN "failed" ELSE "pending"

\* variant: the error is rethrown after the status write and ends the for loop
CatchAbortsBatch(r) ==
    /\ updateStatus(Current(r).id, FailureStatus(Current(r).retryCount))
    /\ IF kind[r] = "byId"
       THEN Return(r)
       ELSE /\ results' = [results EXCEPT ![r] = Append(@, FALSE)]
            /\ pc' = [pc EXCEPT ![r] = "count"]
            /\ UNCHANGED <<kind, pending, initPc>>

\* catch (error) of summarizeBookmark: status from the snapshot's retry
\* count, return false
Catch(r) ==
    /\ updateStatus(Current(r).id, FailureStatus(Current(r).retryCount))
    /\ Returned(r, FALSE)

\* ===================================================== search: data
\* ---------------------------------------------------------------- bounds
SmallLimit == 1        \* the `limit` option below the default
MaxSelections == 1     \* selections recorded per bookmark
MaxCalls == 2          \* search() calls that may be in flight at once
Epoch == 100000        \* Date.now() when the model starts (ms)
Tick == 60000          \* granularity of the clock (ms)
MaxTicks == 1          \* the clock stops after this many ticks
MaxStale == 2          \* staleServed counts up to this

\* ------------------------------------------------------ program constants
DEFAULT_LIMIT == 20                    \* limit = 20
INDEX_REFRESH_INTERVAL == 60000        \* 1 minute
STRATEGIES_REFRESH_INTERVAL == 30000   \* 30 seconds
CATEGORY_SCORE == 100                  \* score: 100 of the category short-cut
MAX_SCORE == 100                       \* maxScore
MIN_SCORE == 40                        \* minScore
FUZZY_FALLBACK == 35                   \* fallback if no fuzzy strategy configured

\* Fuse.js scores are modelled in fifths: 0 (perfect) .. FuseThreshold/FuseScale
FuseScale == 5
FuseThreshold == 2                     \* threshold: 0.4
NoHit == FuseScale                     \* not returned by Fuse.js

Calls == 1..MaxCalls

\* strings are sequences of characters
Whitespace == {" "}
AtSigns == {"@", "U+FF20"}             \* [@＠]

toLowerCaseChar(c) ==
    CASE c = "R" -> "r"
      [] c = "G" -> "g"
      [] c = "D" -> "d"
      [] c = "E" -> "e"
      [] c = "O" -> "o"
      [] OTHER -> c

toLowerCase(s) == [i \in 1..Len(s) |-> toLowerCaseChar(s[i])]

RECURSIVE trimStart(_)
trimStart(s) ==
    IF s # <<>> /\ Head(s) \in Whitespace THEN trimStart(Tail(s)) ELSE s

RECURSIVE trimEnd(_)
trimEnd(s) ==
    IF s # <<>> /\ s[Len(s)] \in Whitespace
    THEN trimEnd(SubSeq(s, 1, Len(s) - 1))
    ELSE s

trim(s) == trimEnd(trimStart(s))

\* String.prototype.includes
includes(text, q) ==
    \E i \in 0..(Len(text) - Len(q)) : SubSeq(text, i + 1, i + Len(q)) = q

\* bookmark.category is undefined (the row has no category; a name is not empty)
NoCategory == <<>>

\* the texts of the catalogue
T_ReactGuide == <<"R","e","a","c","t"," ","G","u","i","d","e">>
T_reactTutorial == <<"r","e","a","c","t"," ","t","u","t","o","r","i","a","l">>
T_Notes == <<"n","o","t","e","s">>
U_a == <<"a",".","i","o">>
U_b == <<"b",".","i","o">>
U_react == <<"r","e","a","c","t",".","d","e","v">>
N_Dev == <<"D","e","v">>
N_Eng == <<"E","n","g">>
N_Ops == <<"O","p","s">>

\* a row of GET_ALL_FOR_INDEX as mapRowToBookmarkWithDetails returns it
\* (tags, summary, notes and page content are empty in the catalogue)
BookmarkWithDetails(id, title, url, category, isPinned, lastUpdated) ==
    [id |-> id, originalTitle |-> title, url |-> url, category |-> category,
     isPinned |-> isPinned, lastUpdated |-> lastUpdated,
     tags |-> {}, summaryText |-> <<>>, userNotes |-> <<>>, pageContent |-> <<>>]

\* A, B and C: rows in id order
Catalogue(pinA, pinB, catA) ==
    << BookmarkWithDetails(1, T_ReactGuide, U_a, catA, pinA, 30),
       BookmarkWithDetails(2, T_reactTutorial, U_b, N_Dev, pinB, 20),
       BookmarkWithDetails(3, T_Notes, U_react, N_Ops, FALSE, 10) >>

BookmarkIds == {1, 2, 3}

\* queries
Q_react == <<"r","e","a","c","t">>
Q_React == <<"R","e","a","c","t">>
Q_blank == <<" ">>
Q_atDev == <<"@","D","e","v">>
Q_atdev == <<"U+FF20","d","e","v">>
Q_atdevReact == <<" ","@","d","e","v"," "," ","r","e","a","c","t">>
Q_atOpsGuide == <<"@","o","p","s"," ","G","u","i","d","e">>
Q_tG == <<"t"," ","G">>
Queries == {Q_react, Q_React, Q_blank, Q_atDev, Q_atdev, Q_atdevReact, Q_atOpsGuide, Q_tG}

Limits == {SmallLimit, DEFAULT_LIMIT}
SearchTypes == {"default"}

\* Fuse.js scores per bookmark id (NoHit: not returned)
FuseOptions ==
    {f \in [BookmarkIds -> 0..NoHit] :
        /\ f[1] \in {NoHit, 2}
        /\ f[2] \in {NoHit, 1}
        /\ f[3] \in {NoHit, 0, 2}}

\* texts that pinyinMatch.match(text, query) accepts
PinyinOptions == {{}, {T_ReactGuide, U_a}}

\* ------------------------------------------------- search-config.ts
Strategy(id, field, matchType) ==
    [id |-> id, field |-> field, matchType |-> matchType, enabled |-> TRUE]

DEFAULT_SEARCH_STRATEGIES ==
    << Strategy("url_exact_case", "url", "exact_case"),
       Strategy("url_exact", "url", "exact"),
       Strategy("url_pinyin", "url", "pinyin"),
       Strategy("url_fuzzy", "url", "fuzzy"),
       Strategy("title_exact_case", "title", "exact_case"),
       Strategy("title_exact", "title", "exact"),
       Strategy("title_pinyin", "title", "pinyin"),
       Strategy("title_fuzzy", "title", "fuzzy"),
       Strategy("tag_exact_case", "tag", "exact_case"),
       Strategy("tag_exact", "tag", "exact"),
       Strategy("tag_pinyin", "tag", "pinyin"),
       Strategy("tag_fuzzy", "tag", "fuzzy"),
       Strategy("summary_exact", "summary", "exact"),
       Strategy("summary_fuzzy", "summary", "fuzzy"),
       Strategy("category_exact", "category", "exact"),
       Strategy("category_pinyin", "category", "pinyin"),
       Strategy("notes_exact", "notes", "exact"),
       Strategy("notes_fuzzy", "notes", "fuzzy") >>

DefaultIds == {DEFAULT_SEARCH_STRATEGIES[k].id : k \in 1..Len(DEFAULT_SEARCH_STRATEGIES)}

DefaultById(id) ==
    DEFAULT_SEARCH_STRATEGIES[
        CHOOSE k \in 1..Len(DEFAULT_SEARCH_STRATEGIES) :
            DEFAULT_SEARCH_STRATEGIES[k].id = id]

\* the saved order is ignored
loadSearchStrategies_defaults(savedOrder) == DEFAULT_SEARCH_STRATEGIES

\* strategies added to the defaults after the order was saved are left out
loadSearchStrategies_savedOnly(savedOrder) ==
    IF Len(savedOrder) = 0
    THEN DEFAULT_SEARCH_STRATEGIES
    ELSE LET known(s) == s.id \in DefaultIds
             kept == SelectSeq(savedOrder, known)
         IN  [k \in 1..Len(kept) |->
                 [DefaultById(kept[k].id) EXCEPT !.enabled = kept[k].enabled]]

\* loadSearchStrategies: the saved order first (unknown ids dropped), then the
\* defaults the saved order does not name
loadSearchStrategies(savedOrder) ==
    IF Len(savedOrder) = 0
    THEN DEFAULT_SEARCH_STRATEGIES
    ELSE LET known(s) == s.id \in DefaultIds
             kept == SelectSeq(savedOrder, known)
             usedIds == {kept[k].id : k \in 1..Len(kept)}
             fresh(d) == d.id \notin usedIds
         IN  [k \in 1..Len(kept) |->
                 [DefaultById(kept[k].id) EXCEPT !.enabled = kept[k].enabled]]
             \o SelectSeq(DEFAULT_SEARCH_STRATEGIES, fresh)

getEnabledStrategies(strategies) ==
    LET enabled(s) == s.enabled IN SelectSeq(strategies, enabled)

\* a saved order that names every strategy: `on` first, in order, enabled;
\* the others after them, disabled
SavedOrder(on) ==
    LET onIds == {on[k] : k \in 1..Len(on)}
        off(d) == d.id \notin onIds
        rest == SelectSeq(DEFAULT_SEARCH_STRATEGIES, off)
    IN  [k \in 1..Len(on) |-> [id |-> on[k], enabled |-> TRUE]]
        \o [k \in 1..Len(rest) |-> [id |-> rest[k].id, enabled |-> FALSE]]

SavedOrders ==
    { <<>>,
      SavedOrder(<<"title_exact", "url_exact">>),
      SavedOrder(<<"title_exact_case", "url_exact", "title_fuzzy", "title_exact">>),
      SavedOrder(<<"title_fuzzy", "title_pinyin", "url_exact_case">>) }

\* saved orders as an older or a newer version of the extension left them:
\* some strategies only, in any order, enabled or not, and an id that is no
\* longer among the defaults
MaxSaved == 2          \* entries of such a saved order

SavedIds == {"notes_fuzzy", "title_exact", "body_exact"}

SavedEntries == [id : SavedIds, enabled : BOOLEAN]

PartialOrders == UNION {[1..n -> SavedEntries] : n \in 0..MaxSaved}

\* saved orders that leave one, two, four or all of the strategies enabled
EnabledOrders ==
    { <<>>,
      SavedOrder(<<"title_exact">>),
      SavedOrder(<<"title_exact", "url_exact">>),
      SavedOrder(<<"title_exact_case", "url_exact", "title_fuzzy", "title_exact">>) }

\* calculateScore is a fraction of denominator ScoreDen(totalStrategies);
\* scores are kept as integers in units of 1 / ScoreUnit(totalStrategies)
ScoreDen(totalStrategies) == IF totalStrategies - 1 > 1 THEN totalStrategies - 1 ELSE 1

ScoreUnit(totalStrategies) == FuseScale * ScoreDen(totalStrategies)

\* a score that does not look at the position
calculateScore_flat(strategyIndex, totalStrategies) == MAX_SCORE * ScoreDen(totalStrategies)

\* a score that grows with the position
calculateScore_ascending(strategyIndex, totalStrategies) ==
    MIN_SCORE * ScoreDen(totalStrategies) + strategyIndex * (MAX_SCORE - MIN_SCORE)

\* calculateScore: maxScore - ratio * (maxScore - minScore), times ScoreDen
calculateScore(strategyIndex, totalStrategies) ==
    MAX_SCORE * ScoreDen(totalStrategies) - strategyIndex * (MAX_SCORE - MIN_SCORE)

\* ------------------------------------------------- search-engine.ts
\* CATEGORY_PREFIX = /^[@＠]([^\s]+)(?:\s+(.*))?$/ on the trimmed query
isCategorySearch(q) ==
    LET t == trim(q)
    IN  Len(t) >= 2 /\ t[1] \in AtSigns /\ t[2] \notin Whitespace

\* last character of the group ([^\s]+)
TokenEnd(t) ==
    LET ws == {i \in 2..Len(t) : t[i] \in Whitespace}
    IN  IF ws = {} THEN Len(t)
        ELSE (CHOOSE i \in ws : \A j \in ws : i <= j) - 1

parseCategorySearch(q) ==
    LET t == trim(q)
    IN  IF isCategorySearch(q)
        THEN [category |-> SubSeq(t, 2, TokenEnd(t)),
              keyword |-> trim(SubSeq(t, TokenEnd(t) + 1, Len(t)))]
        ELSE [category |-> <<>>, keyword |-> q]

\* getFieldText: the texts of a field, falsy values filtered out
getFieldText(bookmark, field) ==
    LET one(text) == IF text # <<>> THEN {text} ELSE {}
    IN  CASE field = "url" -> one(bookmark.url)
          [] field = "title" -> one(bookmark.originalTitle)
          [] field = "tag" -> bookmark.tags
          [] field = "summary" -> one(bookmark.summaryText)
          [] field = "category" ->
                IF bookmark.category # NoCategory THEN one(bookmark.category) ELSE {}
          [] field = "notes" -> one(bookmark.userNotes)
          [] field = "content" -> one(bookmark.pageContent)
          [] OTHER -> {}

\* checkMatch; `pinyin` is the set of texts pinyinMatch.match accepts for q
checkMatch(q, text, matchMode, pinyin) ==
    /\ text # <<>>
    /\ CASE matchMode = "exact_case" -> includes(text, q)
         [] matchMode = "exact" -> includes(toLowerCase(text), toLowerCase(q))
         [] matchMode = "pinyin" -> text \in pinyin
         [] OTHER -> FALSE

fieldToMatchType(field, matchMode) ==
    IF matchMode \in {"exact_case", "exact", "pinyin", "fuzzy"}
    THEN matchMode
    ELSE IF field \in {"url", "tag", "summary", "category", "notes", "content"}
         THEN field
         ELSE "exact"

\* Array.prototype.sort (stable); order[i][j] is compareFn(seq[i], seq[j])
StableSort(seq, order) ==
    LET n == Len(seq)
        before(i, j) ==
            \/ order[i][j] < 0
            \/ order[i][j] = 0 /\ i < j
        rank(i) == Cardinality({j \in 1..n : before(j, i)}) + 1
    IN  [k \in 1..n |-> seq[CHOOSE i \in 1..n : rank(i) = k]]

\* the filter of the @category prefix
categoryFilterMatches(bookmark, categoryFilter) ==
    /\ bookmark.category # NoCategory
    /\ toLowerCase(bookmark.category) = toLowerCase(categoryFilter)

\* a comparator by last update alone
categoryCompare_byUpdate(a, b) == b.lastUpdated - a.lastUpdated

\* comparator of the category short-cut: pinned first, then last update
categoryCompare(a, b) ==
    IF a.isPinned /\ ~b.isPinned THEN -1
    ELSE IF ~a.isPinned /\ b.isPinned THEN 1
    ELSE b.lastUpdated - a.lastUpdated

\* the category short-cut without `.slice(0, limit)`
categoryResults_unsliced(filteredIndex, lim, totalStrategies) ==
    LET order ==
            [i \in 1..Len(filteredIndex) |->
                [j \in 1..Len(filteredIndex) |-> categoryCompare(filteredIndex[i], filteredIndex[j])]]
        sorted == StableSort(filteredIndex, order)
    IN  [k \in 1..Len(sorted) |->
            [bookmark |-> sorted[k],
             score |-> CATEGORY_SCORE * ScoreUnit(totalStrategies),
             matchType |-> "category",
             matchedField |-> "category"]]

\* no keyword: all in the category, sorted, sliced, score 100
categoryResults(filteredIndex, lim, totalStrategies) ==
    LET order ==
            [i \in 1..Len(filteredIndex) |->
                [j \in 1..Len(filteredIndex) |-> categoryCompare(filteredIndex[i], filteredIndex[j])]]
        sorted == Take(StableSort(filteredIndex, order), lim)
    IN  [k \in 1..Len(sorted) |->
            [bookmark |-> sorted[k],
             score |-> CATEGORY_SCORE * ScoreUnit(totalStrategies),
             matchType |-> "category",
             matchedField |-> "category"]]

\* phase 1 considers the strategy (not content outside fulltext, not fuzzy)
strategyApplies(strategy, searchType) ==
    /\ ~(strategy.field = "content" /\ searchType # "fulltext")
    /\ strategy.matchType # "fuzzy"

strategyMatches(bookmark, strategy, q, pinyin) ==
    \E text \in getFieldText(bookmark, strategy.field) :
        checkMatch(q, text, strategy.matchType, pinyin)

\* the loop over enabledStrategies from position i: the position (from 1) of
\* the first strategy that matches (`break`), 0 when none does
RECURSIVE firstMatch(_, _, _, _, _, _)
firstMatch(bookmark, enabledStrategies, q, searchType, pinyin, i) ==
    IF i > Len(enabledStrategies) THEN 0
    ELSE IF /\ strategyApplies(enabledStrategies[i], searchType)
            /\ strategyMatches(bookmark, enabledStrategies[i], q, pinyin)
         THEN i
         ELSE firstMatch(bookmark, enabledStrategies, q, searchType, pinyin, i + 1)

\* the last strategy that matches instead of the first
bestMatch_last(bookmark, enabledStrategies, q, searchType, pinyin) ==
    LET hits == {i \in 1..Len(enabledStrategies) :
                    /\ strategyApplies(enabledStrategies[i], searchType)
                    /\ strategyMatches(bookmark, enabledStrategies[i], q, pinyin)}
    IN  IF hits = {} THEN 0 ELSE CHOOSE i \in hits : \A j \in hits : i >= j

\* bestMatch of a bookmark: 0 is null
bestMatch(bookmark, enabledStrategies, q, searchType, pinyin) ==
    firstMatch(bookmark, enabledStrategies, q, searchType, pinyin, 1)

\* Phase 1: strategy-based matching, in index order
strategyPhase(filteredIndex, enabledStrategies, q, searchType, pinyin) ==
    LET best == [k \in 1..Len(filteredIndex) |->
                    bestMatch(filteredIndex[k], enabledStrategies, q, searchType, pinyin)]
        hits == SortedSeq({k \in 1..Len(filteredIndex) : best[k] # 0})
    IN  [n \in 1..Len(hits) |->
            LET i == best[hits[n]]
            IN  [bookmark |-> filteredIndex[hits[n]],
                 score |-> FuseScale * calculateScore(i - 1, Len(enabledStrategies)),
                 matchType |-> fieldToMatchType(enabledStrategies[i].field,
                                                enabledStrategies[i].matchType),
                 matchedField |-> enabledStrategies[i].field]]

\* let fuseInstance = null
NoFuse == [built |-> FALSE, docs |-> <<>>]

\* an instance that keeps the collection it had
newFuse_kept(docs) == fuseInstance

\* new Fuse(searchIndex, { keys, threshold, ... })
newFuse(docs) == [built |-> TRUE, docs |-> docs]

\* fuseInstance.search(q, { limit: n }): the hits by ascending score
fuseSearch(index, fuse, n) ==
    LET hit(b) == fuse[b.id] <= FuseThreshold
        hits == SelectSeq(index, hit)
        compare(a, b) == fuse[a.id] - fuse[b.id]
        order ==
            [i \in 1..Len(hits) |->
                [j \in 1..Len(hits) |-> compare(hits[i], hits[j])]]
    IN  Take(StableSort(hits, order), n)

\* fuzzyBaseScore: the score of the position of the first enabled fuzzy
\* strategy (findIndex), 35 if there is none
fuzzyBaseScore(enabledStrategies) ==
    LET fuzzy == {k \in 1..Len(enabledStrategies) : enabledStrategies[k].matchType = "fuzzy"}
        fuzzyIndex == IF fuzzy = {} THEN -1
                      ELSE (CHOOSE k \in fuzzy : \A j \in fuzzy : k <= j) - 1
    IN  IF fuzzyIndex >= 0
        THEN calculateScore(fuzzyIndex, Len(enabledStrategies))
        ELSE FUZZY_FALLBACK * ScoreDen(Len(enabledStrategies))

\* Phase 2: fuzzy search for remaining matches
fuzzyPhase(matches, fuseInst, enabledStrategies, q, lim, fuse) ==
    LET hasFuzzyStrategy == \E k \in 1..Len(enabledStrategies) :
                                enabledStrategies[k].matchType = "fuzzy"
        have == {matches[k].bookmark.id : k \in 1..Len(matches)}
        new(b) == b.id \notin have
        hits == SelectSeq(fuseSearch(fuseInst.docs, fuse, lim - Len(matches)), new)
    IN  IF fuseInst.built /\ Len(matches) < lim /\ hasFuzzyStrategy /\ q # <<>>
        THEN matches \o
             [k \in 1..Len(hits) |->
                [bookmark |-> hits[k],
                 score |-> fuzzyBaseScore(enabledStrategies) * (FuseScale - fuse[hits[k].id]),
                 matchType |-> "fuzzy",
                 matchedField |-> "fuzzy"]]
        ELSE matches

\* comparator of the final sort: pinned first, then score
sortCompare(a, b) ==
    IF a.bookmark.isPinned /\ ~b.bookmark.isPinned THEN -1
    ELSE IF ~a.bookmark.isPinned /\ b.bookmark.isPinned THEN 1
    ELSE b.score - a.score

\* a catch block that gives up the candidates
catchSort_dropped(candidates) == <<>>

\* sortByFrecency, catch: `return results`
catchSort(candidates) == candidates

\* what search() can be made to catch: frecency.sort (in sortByFrecency) and
\* SearchHistoryRepository.add
Failures == {"frecency", "history"}

\* the try blocks of sortByFrecency and of the history write
caughtInSearch == {"frecency", "history"}

\* sortByFrecency: frecency.sort orders by the recorded selections and keeps
\* the incoming order among equals
sortByFrecency(q, matches, selections, failures) ==
    LET compare(a, b) == selections[b.bookmark.id] - selections[a.bookmark.id]
        order ==
            [i \in 1..Len(matches) |->
                [j \in 1..Len(matches) |-> compare(matches[i], matches[j])]]
    IN  IF trim(toLowerCase(q)) = <<>> \/ Len(matches) = 0
        THEN matches
        ELSE IF "frecency" \in failures
        THEN catchSort(matches)
        ELSE StableSort(matches, order)

\* search(options) after refreshIndex: [sorted |-> sortedResults, final |-> finalResults]
SearchOver(index, fuseInst, strategies, selections, q, lim, searchType, fuse, pinyin, failures) ==
    LET enabledStrategies == getEnabledStrategies(strategies)
        totalStrategies == Len(enabledStrategies)
        parsed == parseCategorySearch(q)
        effectiveQuery == IF isCategorySearch(q) THEN parsed.keyword ELSE q
        inCategory(b) == categoryFilterMatches(b, parsed.category)
        filteredIndex == IF isCategorySearch(q) THEN SelectSeq(index, inCategory) ELSE index
        inCategoryOnly == categoryResults(filteredIndex, lim, totalStrategies)
        matches == fuzzyPhase(
                      strategyPhase(filteredIndex, enabledStrategies, effectiveQuery,
                                    searchType, pinyin),
                      fuseInst, enabledStrategies, effectiveQuery, lim, fuse)
        order ==
            [i \in 1..Len(matches) |->
                [j \in 1..Len(matches) |-> sortCompare(matches[i], matches[j])]]
        sorted == Take(StableSort(matches, order), lim)
        isPinned(r) == r.bookmark.isPinned
        notPinned(r) == ~r.bookmark.isPinned
        pinnedResults == SelectSeq(sorted, isPinned)
        normalResults == SelectSeq(sorted, notPinned)
        frecencyQuery == IF effectiveQuery # <<>> THEN effectiveQuery ELSE q
    IN  IF Len(trim(q)) = 0
        THEN [sorted |-> <<>>, final |-> <<>>]
        ELSE IF isCategorySearch(q) /\ Len(effectiveQuery) = 0
        THEN [sorted |-> inCategoryOnly, final |-> inCategoryOnly]
        ELSE [sorted |-> sorted,
              final |-> pinnedResults
                        \o sortByFrecency(frecencyQuery, normalResults, selections,
                                          failures)]

\* search(options) over a collection and the Fuse.js instance built from it
Search(index, strategies, selections, q, lim, searchType, fuse, pinyin) ==
    SearchOver(index, newFuse(index), strategies, selections, q, lim, searchType,
               fuse, pinyin, {})

\* ===================================================== search: handlers
\* Every await of search() is a point where another handler may run.  The
\* reads of storage (searchStrategyOrder.getValue, getAllForIndex) are steps
\* of their own position; the value read and the assignments that follow the
\* await are one step (responses of the offscreen document arrive in the
\* order of the requests).  SearchHistoryRepository.add only writes the
\* search_history table, which nothing here reads, and is left out.

NoReload == -1         \* lastReloadAt: no reload since the last invalidation

CallsInFlight == {c \in Calls : callPc[c] \notin {"idle", "returned"}}
\* calls whose refreshIndex has returned
AtResults == {c \in Calls : callPc[c] = "results"}
FreeCall(c) == callPc[c] = "idle" /\ \A d \in Calls : callPc[d] = "idle" => c <= d

\* what the overlay shows: the options and the return value of the last search
Shown(q, lim, fuse, pinyin, sorted, final, failures) ==
    /\ caught' = failures
    /\ query' = q
    /\ limitOption' = lim
    /\ fuseScore' = fuse
    /\ pinyinHits' = pinyin
    /\ sortedResults' = sorted
    /\ finalResults' = final

NothingShown ==
    Shown(<<>>, DEFAULT_LIMIT, [b \in BookmarkIds |-> NoHit], {}, <<>>, <<>>, {})

\* search(): `if (!query || query.trim().length === 0) return []`
search_blank(c, q, lim) ==
    /\ FreeCall(c)
    /\ Len(trim(q)) = 0
    /\ callPc' = [callPc EXCEPT ![c] = "returned"]
    /\ Shown(q, lim, [b \in BookmarkIds |-> NoHit], {}, <<>>, <<>>, {})
    /\ UNCHANGED <<queueVars, restVars, dbBookmarks, searchStrategyOrder, requireAvailable,
                   cacheVars, frecency, now, callNow, callOld, callFailed, historyVars>>

\* search() with a query that is not blank, up to refreshIndex's
\* `const now = Date.now(); await refreshStrategies()`
search_refreshIndex(c) ==
    /\ FreeCall(c)
    /\ callPc' = [callPc EXCEPT ![c] = "refreshStrategies"]
    /\ callNow' = [callNow EXCEPT ![c] = now]
    /\ callOld' = [callOld EXCEPT ![c] = FALSE]
    /\ UNCHANGED <<queueVars, restVars, dbBookmarks, searchStrategyOrder, requireAvailable,
                   cacheVars, frecency, now, callFailed, inputVars, outputVars,
                   historyVars>>

\* refreshStrategies (its own Date.now())
refreshStrategies(c) ==
    /\ callPc[c] = "refreshStrategies"
    /\ IF now - lastStrategiesUpdate < STRATEGIES_REFRESH_INTERVAL
          /\ Len(activeStrategies) > 0
       THEN UNCHANGED <<activeStrategies, lastStrategiesUpdate>>
       ELSE /\ activeStrategies' = loadSearchStrategies(searchStrategyOrder)
            /\ lastStrategiesUpdate' = now
    /\ callPc' = [callPc EXCEPT ![c] = "ttl"]
    /\ UNCHANGED <<queueVars, restVars, dbBookmarks, searchStrategyOrder, requireAvailable,
                   searchIndex, fuseInstance, lastIndexUpdate, frecency, now, callNow,
                   callOld, callFailed,
                   inputVars, outputVars, historyVars>>

\* refreshIndex: the TTL gate, with the `now` taken before refreshStrategies
refreshIndex_ttl(c) ==
    /\ callPc[c] = "ttl"
    /\ callPc' = [callPc EXCEPT ![c] =
          IF callNow[c] - lastIndexUpdate < INDEX_REFRESH_INTERVAL
             /\ Len(searchIndex) > 0
          THEN "results"
          ELSE "getAllForIndex"]
    /\ UNCHANGED <<queueVars, restVars, dbBookmarks, searchStrategyOrder, requireAvailable,
                   cacheVars, frecency, now, callNow, callOld, callFailed,
                   inputVars, outputVars, historyVars>>

\* refreshIndex: searchIndex = await getAllForIndex(); new Fuse; lastIndexUpdate = now
refreshIndex_getAllForIndex(c) ==
    /\ callPc[c] = "getAllForIndex"
    /\ searchIndex' = dbBookmarks
    /\ fuseInstance' = newFuse(searchIndex')
    /\ lastIndexUpdate' = callNow[c]
    /\ lastReloadAt' = now
    /\ callPc' = [callPc EXCEPT ![c] = "results"]
    /\ UNCHANGED <<queueVars, restVars, dbBookmarks, searchStrategyOrder, requireAvailable,
                   activeStrategies, lastStrategiesUpdate, frecency, now, callNow,
                   callOld, callFailed, inputVars, outputVars, staleServed>>

\* a catch that drops the cache
catchRefresh_cleared ==
    /\ searchIndex' = <<>>
    /\ fuseInstance' = NoFuse
    /\ UNCHANGED lastIndexUpdate

\* refreshIndex: catch (error) { logger.error(...) }
catchRefresh == UNCHANGED <<searchIndex, fuseInstance, lastIndexUpdate>>

\* refreshIndex: getAllForIndex() rejects (the offscreen document answers
\* with an error); the assignment of searchIndex never happens
refreshIndex_getAllForIndex_throws(c) ==
    /\ callPc[c] = "getAllForIndex"
    /\ catchRefresh
    /\ callFailed' = [callFailed EXCEPT ![c] = TRUE]
    /\ callPc' = [callPc EXCEPT ![c] = "results"]
    /\ UNCHANGED <<queueVars, restVars, dbBookmarks, searchStrategyOrder, requireAvailable,
                   activeStrategies, lastStrategiesUpdate, frecency, now, callNow,
                   callOld, inputVars, outputVars, historyVars>>

\* the return value differs from the one the stored rows give
ServesStale(q, lim, searchType, fuse, pinyin) ==
    /\ searchIndex # dbBookmarks
    /\ SearchOver(searchIndex, fuseInstance, activeStrategies, frecency, q, lim,
                  searchType, fuse, pinyin, {}).final
         # Search(dbBookmarks, activeStrategies, frecency, q, lim, searchType, fuse, pinyin).final

\* search() after refreshIndex, with the options of the call (they are not
\* read before) and the answers of Fuse.js and pinyin-match
search_results(c, q, lim, searchType, fuse, pinyin, failures) ==
    /\ callPc[c] = "results"
    /\ Len(trim(q)) > 0
    /\ LET found == SearchOver(searchIndex, fuseInstance, activeStrategies, frecency,
                               q, lim, searchType, fuse, pinyin, failures)
       IN  IF failures \subseteq caughtInSearch
           THEN Shown(q, lim, fuse, pinyin, found.sorted, found.final, failures)
           ELSE Shown(q, lim, fuse, pinyin, <<>>, <<>>, failures)
    /\ staleServed' =
          IF ~callOld[c] /\ isCategorySearch(q) /\ ServesStale(q, lim, searchType, fuse, pinyin)
          THEN Min(staleServed + 1, MaxStale)
          ELSE staleServed
    /\ callPc' = [callPc EXCEPT
                     ![c] = IF failures \subseteq caughtInSearch THEN "returned" ELSE "rejected"]
    /\ callNow' = [callNow EXCEPT ![c] = 0]
    /\ callOld' = [callOld EXCEPT ![c] = FALSE]
    /\ UNCHANGED <<queueVars, restVars, dbBookmarks, searchStrategyOrder, requireAvailable,
                   cacheVars, frecency, now, callFailed, lastReloadAt>>

\* the overlay: a result is chosen (FRECENCY_RECORD, then onClose);
\* frecency counts the selections of a bookmark
recordSelection(c, bookmarkId) ==
    /\ callPc[c] = "returned"
    /\ \E k \in 1..Len(finalResults) : finalResults[k].bookmark.id = bookmarkId
    /\ frecency[bookmarkId] < MaxSelections
    /\ frecency' = IF Len(trim(toLowerCase(query))) = 0
                   THEN frecency
                   ELSE [frecency EXCEPT ![bookmarkId] = @ + 1]
    /\ callPc' = [callPc EXCEPT ![c] = "idle"]
    /\ NothingShown
    /\ callFailed' = [callFailed EXCEPT ![c] = FALSE]
    /\ UNCHANGED <<queueVars, restVars, dbBookmarks, searchStrategyOrder, requireAvailable,
                   cacheVars, now, callNow, callOld, historyVars>>

\* the overlay is closed without a choice
onClose(c) ==
    /\ callPc[c] \in {"returned", "rejected"}
    /\ callPc' = [callPc EXCEPT ![c] = "idle"]
    /\ NothingShown
    /\ callFailed' = [callFailed EXCEPT ![c] = FALSE]
    /\ UNCHANGED <<queueVars, restVars, dbBookmarks, searchStrategyOrder, requireAvailable,
                   cacheVars, frecency, now, callNow, callOld, historyVars>>

\* ------------------------------------------------- category mutations
\* The statement and the return of execute() are one step: a search that
\* runs in between belongs to the time before the mutation.
NamesInUse == {dbBookmarks[k].category : k \in 1..Len(dbBookmarks)} \ {NoCategory}
Reassigned == {1}      \* bookmarks whose category is set by the user

\* invalidateIndex()
invalidateIndex ==
    /\ lastIndexUpdate' = 0
    /\ lastReloadAt' = NoReload

\* CategoryRepository._invalidateIndex: require() inside try/catch
_invalidateIndex ==
    IF requireAvailable
    THEN invalidateIndex
    ELSE UNCHANGED <<lastIndexUpdate, lastReloadAt>>

\* a mutation has completed: calls in flight began before it
MutationDone ==
    /\ callOld' = [c \in Calls |-> c \in CallsInFlight]
    /\ staleServed' = 0
    /\ UNCHANGED <<queueVars, restVars, searchStrategyOrder, requireAvailable, searchIndex,
                   fuseInstance,
                   activeStrategies, lastStrategiesUpdate, frecency, now, callPc,
                   callNow, callFailed, inputVars, outputVars>>

\* SET_BOOKMARK_CATEGORY: CategoryRepository.setBookmarkCategory, then
\* invalidateIndex() in the handler
setBookmarkCategory(bookmarkId, category) ==
    /\ \E k \in 1..Len(dbBookmarks) : dbBookmarks[k].id = bookmarkId
    /\ dbBookmarks' = [k \in 1..Len(dbBookmarks) |->
          IF dbBookmarks[k].id = bookmarkId
          THEN [dbBookmarks[k] EXCEPT !.category = category, !.lastUpdated = now]
          ELSE dbBookmarks[k]]
    /\ invalidateIndex
    /\ MutationDone

\* CATEGORY_CREATE: CategoryRepository.create (no bookmark is in the new category)
CategoryRepository_create(name) ==
    /\ name \notin NamesInUse
    /\ UNCHANGED dbBookmarks
    /\ _invalidateIndex
    /\ MutationDone

\* CATEGORY_UPDATE: CategoryRepository.update renames the category
CategoryRepository_update(name, newName) ==
    /\ name \in NamesInUse
    /\ newName \notin NamesInUse
    /\ dbBookmarks' = [k \in 1..Len(dbBookmarks) |->
          IF dbBookmarks[k].category = name
          THEN [dbBookmarks[k] EXCEPT !.category = newName]
          ELSE dbBookmarks[k]]
    /\ _invalidateIndex
    /\ MutationDone

\* CATEGORY_DELETE: CategoryRepository.delete; the join finds no category
CategoryRepository_delete(name) ==
    /\ name \in NamesInUse
    /\ dbBookmarks' = [k \in 1..Len(dbBookmarks) |->
          IF dbBookmarks[k].category = name
          THEN [dbBookmarks[k] EXCEPT !.category = NoCategory]
          ELSE dbBookmarks[k]]
    /\ _invalidateIndex
    /\ MutationDone

\* Date.now() advances
ClockTick ==
    /\ now < Epoch + MaxTicks * Tick
    /\ now' = now + Tick
    /\ UNCHANGED <<queueVars, restVars, dbBookmarks, searchStrategyOrder, requireAvailable,
                   cacheVars, frecency, callVars, inputVars, outputVars, historyVars>>

\* ===================================================== search overlay
MaxQueries == 3        \* changes of the query field

QueryKinds == {"blank", "bookmark", "history"}

\* seqs of the requests in flight
InFlight == {requests[k].seq : k \in 1..Len(requests)}

\* without element k
Without(seq, k) == SubSeq(seq, 1, k - 1) \o SubSeq(seq, k + 1, Len(seq))

\* setQuery: the effect clears the pending timeout and sets a new one
setQuery(queryKind) ==
    /\ uiQuery.seq < MaxQueries
    /\ uiQuery' = [seq |-> uiQuery.seq + 1, kind |-> queryKind]
    /\ debounceTimer' = TRUE
    /\ UNCHANGED <<queueVars, searchVars, repairVars, fetcherVars, otherVars, requests, uiResults, uiHistoryResults,
                   searchMode, isLoading, lastIssued>>

\* the timeout fires: performSearch with a blank query
performSearch_blank ==
    /\ debounceTimer
    /\ uiQuery.kind = "blank"
    /\ debounceTimer' = FALSE
    /\ uiResults' = 0
    /\ uiHistoryResults' = 0
    /\ lastIssued' = uiQuery.seq
    /\ UNCHANGED <<queueVars, searchVars, repairVars, fetcherVars, otherVars, uiQuery, requests, searchMode, isLoading>>

\* the timeout fires: performSearch up to `await sendMessage(...)`
performSearch_send ==
    /\ debounceTimer
    /\ uiQuery.kind # "blank"
    /\ debounceTimer' = FALSE
    /\ searchMode' = uiQuery.kind
    /\ isLoading' = TRUE
    /\ requests' = Append(requests, uiQuery)
    /\ lastIssued' = uiQuery.seq
    /\ UNCHANGED <<queueVars, searchVars, repairVars, fetcherVars, otherVars, uiQuery, uiResults, uiHistoryResults>>

\* setResults / setHistoryResults after the await
applyResponse(r) ==
    /\ uiResults' = IF r.kind = "bookmark" THEN r.seq ELSE 0
    /\ uiHistoryResults' = IF r.kind = "history" THEN r.seq ELSE 0

\* performSearch after the await: the response of request k arrives.  The
\* handlers of SEARCH_BOOKMARKS and SEARCH_HISTORY are independent; responses
\* of the same handler arrive in the order of the requests.
performSearch_response(k) ==
    /\ k \in 1..Len(requests)
    /\ \A j \in 1..(k - 1) : requests[j].kind # requests[k].kind
    /\ applyResponse(requests[k])
    /\ isLoading' = FALSE
    /\ requests' = Without(requests, k)
    /\ UNCHANGED <<queueVars, searchVars, repairVars, fetcherVars, otherVars, uiQuery, debounceTimer, searchMode,
                   lastIssued>>

\* useState initial values
OverlayStart ==
    /\ uiQuery = [seq |-> 0, kind |-> "blank"]
    /\ debounceTimer = FALSE
    /\ requests = <<>>
    /\ uiResults = 0
    /\ uiHistoryResults = 0
    /\ searchMode = "bookmark"
    /\ isLoading = FALSE
    /\ lastIssued = 0

\* ===================================================== repair scan
\* refetchGarbledContent (the repair scan) and the part of summarizeBookmark
\* that fetches the page.  A content is [length, isGarbled]: what the two
\* flows read of it (its length, and the verdict of detectGarbledContent).
MaxScans == 2          \* repair scans started

Content(length, isGarbled) == [length |-> length, isGarbled |-> isGarbled]

NoContent == Content(0, FALSE)         \* null, undefined or ''

\* page_content of a row when the model starts
StoredContents == {NoContent, Content(200, TRUE), Content(300, FALSE)}

\* what fetchPageContentSmart may return (it catches every error itself)
FetchedContents ==
    {NoContent, Content(40, FALSE), Content(200, TRUE), Content(100, FALSE),
     Content(300, FALSE)}

REFETCH_MIN_LENGTH == 50               \* newContent.length > 50

NoBookmark == 0

\* no row
NoRow == [id |-> NoBookmark, pageContent |-> NoContent, fetchFailedAt |-> FALSE]

\* mapRowToBookmark: the fields of a row the two flows read later
Row(b) == [id |-> b, pageContent |-> pageContent[b], fetchFailedAt |-> fetchFailedAt[b]]

\* BookmarkRepository.updateContent
updateContent(id, content) == pageContent' = [pageContent EXCEPT ![id] = content]

\* BookmarkRepository.markFetchFailed
markFetchFailed(id) == fetchFailedAt' = [fetchFailedAt EXCEPT ![id] = TRUE]

\* `if (bookmark.fetchFailedAt) { skippedDead++; continue; }`
skipsDead(row) == row.fetchFailedAt

\* the first loop of the scan: empty or garbled content needs a refetch
needsRefetch(row) ==
    /\ ~skipsDead(row)
    /\ \/ row.pageContent.length = 0
       \/ row.pageContent.isGarbled

\* `oldContent && oldContent.length > newContent.length * 2`
rejectsShorter(oldContent, content) ==
    oldContent.length > 0 /\ oldContent.length > content.length * 2

\* the bookmark of the current iteration of the second loop
CurrentRefetch == allBookmarks[needsRefetchList[refetchIndex]]

\* `result.failed++; result.errors.push(...)` with the reason of the message
Failed(reason) ==
    repairResult' = [repairResult EXCEPT
                        !.errors = @ \cup {[id |-> CurrentRefetch.id, reason |-> reason]}]

\* a final message that leaves the failures out
completeProgress_successOnly(total, result) ==
    [phase |-> "complete", total |-> total, remaining |-> 0,
     success |-> Cardinality(result.refetched), failed |-> 0, current |-> NoBookmark]

\* the messages of refetchGarbledContent: after the scan, before each fetch
\* and after the loop
scanningProgress(total) ==
    [phase |-> "scanning", total |-> total, remaining |-> total,
     success |-> 0, failed |-> 0, current |-> NoBookmark]

processingProgress(total, processed, result, id) ==
    [phase |-> "processing", total |-> total, remaining |-> total - processed,
     success |-> Cardinality(result.refetched), failed |-> Cardinality(result.errors),
     current |-> id]

completeProgress(total, result) ==
    [phase |-> "complete", total |-> total, remaining |-> 0,
     success |-> Cardinality(result.refetched), failed |-> Cardinality(result.errors),
     current |-> NoBookmark]

\* broadcastProgress: chrome.runtime.sendMessage, errors ignored
broadcastProgress(message) == progress' = Append(progress, message)

\* the iteration ends: the next bookmark of the list or the end of the scan
\* (`continue` and the 500 ms pause both lead here)
NextRefetch ==
    /\ refetchIndex' = refetchIndex + 1
    /\ repairPc' = IF refetchIndex < Len(needsRefetchList) THEN "fetch" ELSE "idle"
    /\ IF refetchIndex < Len(needsRefetchList)
       THEN UNCHANGED progress
       ELSE broadcastProgress(completeProgress(Len(needsRefetchList), repairResult'))

\* refetchGarbledContent up to the second loop: the rows are read once and
\* the list of the bookmarks to refetch is built from them
refetchGarbledContent ==
    /\ repairPc = "idle"
    /\ scans < MaxScans
    /\ scans' = scans + 1
    /\ allBookmarks' = [b \in Bookmarks |-> Row(b)]
    /\ needsRefetchList' = SortedSeq({b \in Bookmarks : needsRefetch(Row(b))})
    /\ refetchIndex' = 1
    /\ repairResult' = [refetched |-> {}, errors |-> {}]
    /\ repairPc' = IF needsRefetchList' = <<>> THEN "idle" ELSE "fetch"
    /\ progress' =
          IF needsRefetchList' = <<>>
          THEN <<scanningProgress(0), completeProgress(0, repairResult')>>
          ELSE <<scanningProgress(Len(needsRefetchList'))>>
    /\ UNCHANGED <<queueVars, searchVars, overlayVars, fetcherVars, otherVars, pageContent, fetchFailedAt,
                   newContent, enrichPc, enrichBookmark, fetching>>

\* `await fetchPageContentSmart(bookmark.url)`: the request goes out
refetch_fetchPageContentSmart ==
    /\ repairPc = "fetch"
    /\ broadcastProgress(processingProgress(Len(needsRefetchList), refetchIndex - 1,
                                            repairResult, CurrentRefetch.id))
    /\ fetching' = fetching \cup {[flow |-> "repair", id |-> CurrentRefetch.id]}
    /\ repairPc' = "fetched"
    /\ UNCHANGED <<queueVars, searchVars, overlayVars, fetcherVars, otherVars, pageContent, fetchFailedAt,
                   allBookmarks, needsRefetchList, refetchIndex, newContent,
                   repairResult, scans, enrichPc, enrichBookmark>>

\* the fetch returns `content`; the branches up to the next await
refetch_fetched(content) ==
    /\ repairPc = "fetched"
    /\ fetching' = fetching \ {[flow |-> "repair", id |-> CurrentRefetch.id]}
    /\ newContent' = content
    /\ IF content.length > REFETCH_MIN_LENGTH
       THEN IF content.isGarbled \/ rejectsShorter(CurrentRefetch.pageContent, content)
            THEN /\ Failed(IF content.isGarbled THEN "garbled" ELSE "shorter")
                 /\ NextRefetch
            ELSE /\ repairPc' = "updateContent"
                 /\ UNCHANGED <<repairResult, refetchIndex, progress>>
       ELSE /\ Failed("dead")
            /\ repairPc' = "markFetchFailed"
            /\ UNCHANGED <<refetchIndex, progress>>
    /\ UNCHANGED <<queueVars, searchVars, overlayVars, fetcherVars, otherVars, pageContent, fetchFailedAt,
                   allBookmarks, needsRefetchList, scans, enrichPc, enrichBookmark>>

\* `await BookmarkRepository.updateContent(...)`, the log and the pause
refetch_updateContent ==
    /\ repairPc = "updateContent"
    /\ updateContent(CurrentRefetch.id, newContent)
    /\ repairResult' = [repairResult EXCEPT !.refetched = @ \cup {CurrentRefetch.id}]
    /\ NextRefetch
    /\ newContent' = NoContent
    /\ UNCHANGED <<queueVars, searchVars, overlayVars, fetcherVars, otherVars, fetchFailedAt, allBookmarks,
                   needsRefetchList, scans, enrichPc, enrichBookmark, fetching>>

\* the write is rejected: `catch (error) { result.failed++ ... }`
refetch_updateContent_throws ==
    /\ repairPc = "updateContent"
    /\ Failed("error")
    /\ NextRefetch
    /\ newContent' = NoContent
    /\ UNCHANGED <<queueVars, searchVars, overlayVars, fetcherVars, otherVars, pageContent, fetchFailedAt,
                   allBookmarks, needsRefetchList, scans, enrichPc, enrichBookmark,
                   fetching>>

\* `await BookmarkRepository.markFetchFailed(...)` and the pause
refetch_markFetchFailed ==
    /\ repairPc = "markFetchFailed"
    /\ markFetchFailed(CurrentRefetch.id)
    /\ UNCHANGED repairResult
    /\ NextRefetch
    /\ newContent' = NoContent
    /\ UNCHANGED <<queueVars, searchVars, overlayVars, fetcherVars, otherVars, pageContent, allBookmarks,
                   needsRefetchList, scans, enrichPc, enrichBookmark, fetching>>

\* ------------------------------------------- summarizeBookmark: the page
\* processNextBatch reads a selectable row (findPending) and hands it to
\* summarizeBookmark; the steps of the queue around it are those of Spec.
summarizeBookmark_row(b) ==
    /\ enrichPc = "idle"
    /\ Selectable(b)
    /\ enrichBookmark' = Row(b)
    /\ enrichPc' = "content"
    /\ UNCHANGED <<queueVars, searchVars, overlayVars, fetcherVars, otherVars, pageContent, fetchFailedAt,
                   scanVars, fetching>>

\* `let content = bookmark.pageContent; if (!content) content = await fetchPageContent(url)`
summarizeBookmark_fetchPageContent ==
    /\ enrichPc = "content"
    /\ IF enrichBookmark.pageContent.length = 0
       THEN /\ fetching' = fetching \cup {[flow |-> "queue", id |-> enrichBookmark.id]}
            /\ enrichPc' = "fetched"
            /\ UNCHANGED <<status, enrichBookmark>>
       ELSE /\ status' = [status EXCEPT ![enrichBookmark.id] = "completed"]
            /\ enrichPc' = "idle"
            /\ enrichBookmark' = NoRow
            /\ UNCHANGED fetching
    /\ UNCHANGED <<retryCount, summaries, summarizing, alarm, initPc, runVars, envVars,
                   searchVars, overlayVars, fetcherVars, otherVars, pageContent, fetchFailedAt, scanVars>>

\* the fetch returns: `if (content) { ... updateContent(bookmark.id, content, hash) }`,
\* then the summary is made and the status becomes 'completed'
summarizeBookmark_fetched(content) ==
    /\ enrichPc = "fetched"
    /\ fetching' = fetching \ {[flow |-> "queue", id |-> enrichBookmark.id]}
    /\ IF content.length > 0
       THEN updateContent(enrichBookmark.id, content)
       ELSE UNCHANGED pageContent
    /\ status' = [status EXCEPT ![enrichBookmark.id] = "completed"]
    /\ enrichPc' = "idle"
    /\ enrichBookmark' = NoRow
    /\ UNCHANGED <<retryCount, summaries, summarizing, alarm, initPc, runVars, envVars,
                   searchVars, overlayVars, fetcherVars, otherVars, fetchFailedAt, scanVars>>

\* no bookmark is marked; no scan and no summarization in flight
RepairIdle ==
    /\ fetchFailedAt = [b \in Bookmarks |-> FALSE]
    /\ repairPc = "idle"
    /\ allBookmarks = [b \in Bookmarks |-> NoRow]
    /\ needsRefetchList = <<>>
    /\ refetchIndex = 1
    /\ newContent = NoContent
    /\ repairResult = [refetched |-> {}, errors |-> {}]
    /\ progress = <<>>
    /\ scans = 0
    /\ enrichPc = "idle"
    /\ enrichBookmark = NoRow
    /\ fetching = {}

\* the bookmarks have no stored page
RepairStart ==
    /\ RepairIdle
    /\ pageContent = [b \in Bookmarks |-> NoContent]

\* ------------------------------------------- content-fetcher.service.ts
MaxFetches == 3        \* calls of fetchPageContentSmart in flight

Fetches == 1..MaxFetches

MAX_CONCURRENT_TABS == 2
MIN_CONTENT_LENGTH == 500
HTTP_MIN_LENGTH == 100         \* content.length > 100 in fetchPageContentSmart
TAB_MIN_LENGTH == 50           \* content.length > 50 at the end of fetchViaTab

\* The text extractArticleContent gets out of a page: its length and whether
\* it holds one of the three "frames not supported" phrases.
Text(length, framesFallback) == [length |-> length, framesFallback |-> framesFallback]

NoText == Text(0, FALSE)           \* null or ''

Boilerplate == Text(61, TRUE)      \* nothing but the frames message
Stub == Text(80, FALSE)
Article == Text(800, FALSE)

\* A page: whether its url is http(s), the text that can be extracted from
\* it, and whether the site puts a Cloudflare challenge in front of it.
Page(isHttp, text, challenge) == [isHttp |-> isHttp, text |-> text, challenge |-> challenge]

NoPage == Page(FALSE, NoText, FALSE)

Pages ==
    {NoPage, Page(TRUE, NoText, FALSE), Page(TRUE, Boilerplate, FALSE),
     Page(TRUE, Stub, FALSE), Page(TRUE, Article, FALSE), Page(TRUE, Article, TRUE)}

isFramesFallbackContent(content) == content.framesFallback

\* fetchViaHttp on a response that is ok: null for a challenge page and for
\* the frames message, the extracted text otherwise
httpContent(page) ==
    IF page.challenge THEN NoText
    ELSE IF page.text.length > 0 /\ isFramesFallbackContent(page.text) THEN NoText
    ELSE page.text

\* fetchViaTab on the html of a loaded tab without challenge elements
tabContent(page) ==
    IF page.text.length > MIN_CONTENT_LENGTH THEN page.text
    ELSE IF page.text.length > TAB_MIN_LENGTH THEN page.text
    ELSE NoText

\* fetchViaTab after the challenge went away: the page is read again and
\* kept when isValidContent(html)
solvedContent(page) ==
    IF page.text.length > MIN_CONTENT_LENGTH THEN page.text ELSE NoText

\* a waiting loop that lets every fetch through
mayOpen_always(count) == TRUE

\* while (activeTabCount >= MAX_CONCURRENT_TABS) await delay(1000)
mayOpen(count) == count < MAX_CONCURRENT_TABS

returnsContent(f, content) ==
    /\ fetchPc' = [fetchPc EXCEPT ![f] = "returned"]
    /\ fetchReturn' = [fetchReturn EXCEPT ![f] = content]

\* the return value is held while the finally block runs
toFinally(f, content) ==
    /\ fetchPc' = [fetchPc EXCEPT ![f] = "finally"]
    /\ fetchReturn' = [fetchReturn EXCEPT ![f] = content]

\* fetchPageContentSmart(url) up to `await fetchViaHttp(url)`
fetchPageContentSmart(f, page) ==
    /\ fetchPc[f] \in {"idle", "returned"}
    /\ fetchUrl' = [fetchUrl EXCEPT ![f] = page]
    /\ IF ~page.isHttp
       THEN returnsContent(f, NoText)
       ELSE /\ fetchPc' = [fetchPc EXCEPT ![f] = "http"]
            /\ fetchReturn' = [fetchReturn EXCEPT ![f] = NoText]
    /\ UNCHANGED <<queueVars, searchVars, overlayVars, repairVars, otherVars, activeTabCount, openTabs>>

\* fetchViaHttp resolves; fetchPageContentSmart returns or goes on to the tab
fetchViaHttp(f, ok) ==
    /\ fetchPc[f] = "http"
    /\ LET content == IF ok THEN httpContent(fetchUrl[f]) ELSE NoText
       IN  IF content.length > HTTP_MIN_LENGTH
           THEN returnsContent(f, content)
           ELSE /\ fetchPc' = [fetchPc EXCEPT ![f] = "fetchViaTab"]
                /\ UNCHANGED fetchReturn
    /\ UNCHANGED <<queueVars, searchVars, overlayVars, repairVars, otherVars, activeTabCount, openTabs,
                   fetchUrl>>

\* fetchViaTab leaves the waiting loop: activeTabCount++
fetchViaTab(f) ==
    /\ fetchPc[f] = "fetchViaTab"
    /\ mayOpen(activeTabCount)
    /\ activeTabCount' = activeTabCount + 1
    /\ fetchPc' = [fetchPc EXCEPT ![f] = "create"]
    /\ UNCHANGED <<queueVars, searchVars, overlayVars, repairVars, otherVars, openTabs, fetchUrl,
                   fetchReturn>>

\* chrome.tabs.create resolves with a tab
fetchViaTab_create(f) ==
    /\ fetchPc[f] = "create"
    /\ openTabs' = openTabs \cup {f}
    /\ fetchPc' = [fetchPc EXCEPT ![f] = "load"]
    /\ UNCHANGED <<queueVars, searchVars, overlayVars, repairVars, otherVars, activeTabCount, fetchUrl,
                   fetchReturn>>

\* variant: the exception leaves fetchViaTab without passing through finally
fetchViaTab_create_throws_leaks(f) ==
    /\ fetchPc[f] = "create"
    /\ returnsContent(f, NoText)
    /\ UNCHANGED <<queueVars, searchVars, overlayVars, repairVars, otherVars, openTabs, fetchUrl,
                   activeTabCount>>

\* chrome.tabs.create fails: catch, and finally without a tab to close
fetchViaTab_create_throws(f) ==
    /\ fetchPc[f] = "create"
    /\ activeTabCount' = activeTabCount - 1
    /\ returnsContent(f, NoText)
    /\ UNCHANGED <<queueVars, searchVars, overlayVars, repairVars, otherVars, openTabs, fetchUrl>>

\* the user closes a tab the fetcher opened
userClosesTab(f) ==
    /\ f \in openTabs
    /\ openTabs' = openTabs \ {f}
    /\ UNCHANGED <<queueVars, searchVars, overlayVars, repairVars, otherVars, activeTabCount, fetchPc,
                   fetchUrl, fetchReturn>>

\* waitForTabComplete, getTabHtml, extractArticleContent, hasCFChallengeDOM:
\* a tab that is gone or does not load throws; a challenge is waited for
fetchViaTab_load(f, loads) ==
    /\ fetchPc[f] = "load"
    /\ IF f \notin openTabs \/ ~loads
       THEN toFinally(f, NoText)
       ELSE IF fetchUrl[f].challenge
       THEN /\ fetchPc' = [fetchPc EXCEPT ![f] = "challenge"]
            /\ UNCHANGED fetchReturn
       ELSE toFinally(f, tabContent(fetchUrl[f]))
    /\ UNCHANGED <<queueVars, searchVars, overlayVars, repairVars, otherVars, activeTabCount, openTabs,
                   fetchUrl>>

\* the wait for the user: the tab is closed, the challenge is solved, or
\* CF_MAX_WAIT_MS passes
fetchViaTab_challenge(f, solved) ==
    /\ fetchPc[f] = "challenge"
    /\ IF f \in openTabs /\ solved
       THEN toFinally(f, solvedContent(fetchUrl[f]))
       ELSE toFinally(f, NoText)
    /\ UNCHANGED <<queueVars, searchVars, overlayVars, repairVars, otherVars, activeTabCount, openTabs,
                   fetchUrl>>

\* finally: await chrome.tabs.remove(tab.id)
fetchViaTab_remove(f) ==
    /\ fetchPc[f] = "finally"
    /\ openTabs' = openTabs \ {f}
    /\ fetchPc' = [fetchPc EXCEPT ![f] = "release"]
    /\ UNCHANGED <<queueVars, searchVars, overlayVars, repairVars, otherVars, activeTabCount, fetchUrl,
                   fetchReturn>>

\* finally: activeTabCount--, and fetchPageContentSmart returns the content
fetchViaTab_release(f) ==
    /\ fetchPc[f] = "release"
    /\ activeTabCount' = activeTabCount - 1
    /\ fetchPc' = [fetchPc EXCEPT ![f] = "returned"]
    /\ UNCHANGED <<queueVars, searchVars, overlayVars, repairVars, otherVars, openTabs, fetchUrl,
                   fetchReturn>>

\* the module as it is loaded: no fetch under way, no tab open
FetcherStart ==
    /\ activeTabCount = 0
    /\ openTabs = {}
    /\ fetchPc = [f \in Fetches |-> "idle"]
    /\ fetchUrl = [f \in Fetches |-> NoPage]
    /\ fetchReturn = [f \in Fetches |-> NoText]

\* -------------------------------------------- garbled-content detector
MIN_DETECT_LENGTH == 50        \* contentLength < 50: too short to judge
GARBLED_SCORE == 40            \* isGarbled = score >= 40

\* A text as detectGarbledContent sees it: the length after trim, whether a
\* "frames not supported" phrase is in it, and how often each pattern matches.
Sample(length, frames, replacement, entities, mojibake, questions, cjk) ==
    [length |-> length, frames |-> frames, replacement |-> replacement,
     entities |-> entities, mojibake |-> mojibake, questions |-> questions, cjk |-> cjk]

NoSample == Sample(0, FALSE, 0, 0, 0, 0, 0)       \* '' or white space only

\* forty U+FFFD characters and nothing else
FortyReplacements == Sample(40, FALSE, 40, 0, 0, 0, 0)

\* texts of 0, 40, 60 and 500 characters with the matches they have room for
Samples ==
    {t \in [length : {0, 40, 60, 500}, frames : BOOLEAN, replacement : {0, 1, 4, 40},
            entities : {0, 3, 6}, mojibake : {0, 4, 11}, questions : {0, 3},
            cjk : {0, 10}] :
        /\ t.replacement + 4 * t.entities + 2 * t.mojibake + 3 * t.questions + t.cjk
              + (IF t.frames THEN 21 ELSE 0) <= t.length}

NoDetection == [isGarbled |-> FALSE, isEmpty |-> FALSE, needsRefetch |-> FALSE, score |-> -1]

\* the score of the five signals
garbledScore(t) ==
    LET replacementScore ==
            IF t.replacement > 0 /\ t.replacement * 100 > t.length THEN 50
            ELSE IF t.replacement > 3 THEN 30
            ELSE 0
        entityScore == IF t.entities > 5 THEN 40 ELSE IF t.entities > 2 THEN 20 ELSE 0
        mojibakeScore == IF t.mojibake > 10 THEN 40 ELSE IF t.mojibake > 3 THEN 25 ELSE 0
        questionScore == IF t.questions > 2 THEN 20 ELSE 0
        score == replacementScore + entityScore + mojibakeScore + questionScore
    IN  IF t.cjk > 0 /\ t.cjk < 20 /\ t.cjk * 100 < 5 * t.length /\ score > 0
        THEN score + 15
        ELSE score

\* detectGarbledContent
detectGarbledContent(t) ==
    IF t.length = 0
    THEN [isGarbled |-> FALSE, isEmpty |-> TRUE, needsRefetch |-> TRUE, score |-> 0]
    ELSE IF t.length < MIN_DETECT_LENGTH
    THEN [isGarbled |-> FALSE, isEmpty |-> FALSE, needsRefetch |-> TRUE, score |-> 0]
    ELSE IF t.frames
    THEN [isGarbled |-> TRUE, isEmpty |-> FALSE, needsRefetch |-> TRUE, score |-> 100]
    ELSE [isGarbled |-> garbledScore(t) >= GARBLED_SCORE, isEmpty |-> FALSE,
          needsRefetch |-> garbledScore(t) >= GARBLED_SCORE, score |-> garbledScore(t)]

\* a caller hands the text to the detector and keeps the answer
detect ==
    /\ detection = NoDetection
    /\ detection' = detectGarbledContent(detected)
    /\ UNCHANGED <<queueVars, searchVars, overlayVars, repairVars, fetcherVars, toggleVars,
                   detected>>

DetectorStart ==
    /\ detected = NoSample
    /\ detection = NoDetection

\* ------------------------------------------------ toggle-search command
MaxToggleRuns == 2     \* invocations of handleToggleSearch past the lock check
MaxTimers == 3         \* setTimeout(handleToggleSearch) calls that have not fired

ToggleRuns == 1..MaxToggleRuns

\* the invocations between the lock check and the finally block
Toggling == {r \in ToggleRuns : togglePc[r] # "idle"}

\* a lock that is never seen taken
lockTaken_never == FALSE

\* `if (isToggling)`
lockTaken == isToggling

\* handleToggleSearch up to its first await: the call is buffered behind the
\* one in flight, or takes the lock and asks for the active tab; `scheduled`
\* tells the call made by the timeout from the one made by the command
handleToggleSearch(scheduled) ==
    IF lockTaken
    THEN /\ pendingToggle' = TRUE
         /\ unserved' = TRUE
         /\ UNCHANGED <<isToggling, togglePc>>
    ELSE /\ \E r \in ToggleRuns :
              /\ togglePc[r] = "idle"
              /\ \A other \in ToggleRuns : togglePc[other] = "idle" => r <= other
              /\ togglePc' = [togglePc EXCEPT ![r] = "query"]
         /\ isToggling' = TRUE
         /\ unserved' = IF scheduled THEN FALSE ELSE unserved
         /\ UNCHANGED pendingToggle

\* finally: the lock is released and a buffered toggle is scheduled
releaseLock(r) ==
    /\ togglePc' = [togglePc EXCEPT ![r] = "idle"]
    /\ isToggling' = FALSE
    /\ pendingToggle' = FALSE
    /\ toggleTimers' = IF pendingToggle THEN toggleTimers + 1 ELSE toggleTimers

\* toggleOverlay in the content script: it runs to its end without an await,
\* so its own lock is free whenever a message arrives
toggleOverlay == isVisible' = ~isVisible

\* chrome.commands.onCommand: the user presses the shortcut
onCommand ==
    /\ toggleTimers + (IF pendingToggle THEN 1 ELSE 0) < MaxTimers
    /\ handleToggleSearch(FALSE)
    /\ UNCHANGED <<queueVars, searchVars, overlayVars, repairVars, fetcherVars, detectorVars,
                   toggleTimers, isVisible, isDev>>

\* a timeout set by the finally block fires
onTimeout ==
    /\ toggleTimers > 0
    /\ toggleTimers' = toggleTimers - 1
    /\ handleToggleSearch(TRUE)
    /\ UNCHANGED <<queueVars, searchVars, overlayVars, repairVars, fetcherVars, detectorVars,
                   isVisible, isDev>>

\* chrome.tabs.query resolves: no tab or a restricted url returns
handleToggleSearch_query(r, injectable) ==
    /\ togglePc[r] = "query"
    /\ IF injectable
       THEN /\ togglePc' = [togglePc EXCEPT ![r] = "sendMessage"]
            /\ UNCHANGED <<isToggling, pendingToggle, toggleTimers>>
       ELSE releaseLock(r)
    /\ UNCHANGED <<queueVars, searchVars, overlayVars, repairVars, fetcherVars, detectorVars,
                   unserved, isVisible, isDev>>

\* chrome.tabs.sendMessage resolves (the content script toggled the overlay)
\* or rejects: a development build returns, a production build injects
handleToggleSearch_sendMessage(r, delivered) ==
    /\ togglePc[r] = "sendMessage"
    /\ IF delivered
       THEN toggleOverlay /\ releaseLock(r)
       ELSE IF isDev
       THEN releaseLock(r) /\ UNCHANGED isVisible
       ELSE /\ togglePc' = [togglePc EXCEPT ![r] = "inject"]
            /\ UNCHANGED <<isToggling, pendingToggle, toggleTimers, isVisible>>
    /\ UNCHANGED <<queueVars, searchVars, overlayVars, repairVars, fetcherVars, detectorVars,
                   unserved, isDev>>

\* injectContentScript resolves, or rejects into the inner catch
handleToggleSearch_inject(r, injected) ==
    /\ togglePc[r] = "inject"
    /\ IF injected
       THEN /\ togglePc' = [togglePc EXCEPT ![r] = "wait"]
            /\ UNCHANGED <<isToggling, pendingToggle, toggleTimers>>
       ELSE releaseLock(r)
    /\ UNCHANGED <<queueVars, searchVars, overlayVars, repairVars, fetcherVars, detectorVars,
                   unserved, isVisible, isDev>>

\* the 150 ms given to the injected script have passed
handleToggleSearch_wait(r) ==
    /\ togglePc[r] = "wait"
    /\ togglePc' = [togglePc EXCEPT ![r] = "resend"]
    /\ UNCHANGED <<queueVars, searchVars, overlayVars, repairVars, fetcherVars, detectorVars,
                   isToggling, pendingToggle, toggleTimers, unserved, isVisible, isDev>>

\* the second chrome.tabs.sendMessage resolves, or rejects into the inner catch
handleToggleSearch_resend(r, delivered) ==
    /\ togglePc[r] = "resend"
    /\ IF delivered THEN toggleOverlay ELSE UNCHANGED isVisible
    /\ releaseLock(r)
    /\ UNCHANGED <<queueVars, searchVars, overlayVars, repairVars, fetcherVars, detectorVars,
                   unserved, isDev>>

\* no toggle in flight, nothing buffered, the overlay hidden
ToggleIdle ==
    /\ isToggling = FALSE
    /\ pendingToggle = FALSE
    /\ togglePc = [r \in ToggleRuns |-> "idle"]
    /\ toggleTimers = 0
    /\ unserved = FALSE
    /\ isVisible = FALSE

\* a production build
ToggleStart == ToggleIdle /\ isDev = FALSE

\* the overlay, the repair scan, the fetcher, the detector and the command
\* handler as they are loaded
RestStart ==
    OverlayStart /\ RepairStart /\ FetcherStart /\ DetectorStart /\ ToggleStart

\* ---------------------------------------------------- initial states
\* search-engine.ts and frecency as the modules are loaded; nothing shown
EngineStart ==
    /\ searchIndex = <<>>
    /\ fuseInstance = NoFuse
    /\ lastIndexUpdate = 0
    /\ activeStrategies = <<>>
    /\ lastStrategiesUpdate = 0
    /\ frecency = [b \in BookmarkIds |-> 0]
    /\ now = Epoch
    /\ callPc = [c \in Calls |-> "idle"]
    /\ callNow = [c \in Calls |-> 0]
    /\ callOld = [c \in Calls |-> FALSE]
    /\ callFailed = [c \in Calls |-> FALSE]
    /\ query = <<>>
    /\ limitOption = DEFAULT_LIMIT
    /\ fuseScore = [b \in BookmarkIds |-> NoHit]
    /\ pinyinHits = {}
    /\ caught = {}
    /\ sortedResults = <<>>
    /\ finalResults = <<>>
    /\ lastReloadAt = NoReload
    /\ staleServed = 0

\* ------------------------------------------------------------ initial state
\* the queue side: the worker has not started
QueueStart ==
    /\ status = [b \in Bookmarks |-> "pending"]
    /\ retryCount = [b \in Bookmarks |-> 0]
    /\ summaries = [b \in Bookmarks |-> 0]
    /\ summarizing = FALSE
    /\ alarm = FALSE
    /\ initPc = "start"
    /\ pc = [r \in Runs |-> "idle"]
    /\ kind = [r \in Runs |-> "none"]
    /\ pending = [r \in Runs |-> <<>>]
    /\ results = [r \in Runs |-> <<>>]
    /\ analyzingAtStart = {}
    /\ resumed = FALSE
    /\ stopped = FALSE

\* the summarization queue runs on its own: nothing is stored for the search
\* engine and no search is made
Init ==
    /\ QueueStart
    /\ RestStart
    /\ EngineStart
    /\ dbBookmarks = <<>>
    /\ searchStrategyOrder = <<>>
    /\ requireAvailable = TRUE

\* ------------------------------------------------------------ queue control
\* startSummarizationQueue up to its await of processNextBatch
startSummarizationQueue(r) ==
    /\ initPc # "start"
    /\ FreeRun(r)
    /\ summarizing' = TRUE
    /\ Call(r, "batch", "check")
    /\ resumed' = FALSE
    /\ stopped' = FALSE
    /\ UNCHANGED <<dbVars, alarm, initPc, pending, results, analyzingAtStart>>
    /\ UNCHANGED <<searchVars, restVars>>

\* stopSummarizationQueue
stopSummarizationQueue ==
    /\ initPc # "start"
    /\ summarizing' = FALSE
    /\ alarm' = FALSE
    /\ resumed' = FALSE
    /\ stopped' = TRUE
    /\ UNCHANGED <<dbVars, initPc, runVars, analyzingAtStart>>
    /\ UNCHANGED <<searchVars, restVars>>

\* the alarm 'summarize-next' fires: handleSummarizeAlarm, after ensureInitialized
handleSummarizeAlarm(r) ==
    /\ alarm
    /\ initPc = "done"
    /\ FreeRun(r)
    /\ alarm' = FALSE
    /\ Call(r, "batch", "check")
    /\ UNCHANGED <<dbVars, summarizing, initPc, pending, results, envVars>>
    /\ UNCHANGED <<searchVars, restVars>>

\* ---------------------------------------------------------- processNextBatch
\* variant: processNextBatch without its running-flag check
processNextBatch_ignoresFlag(r) ==
    /\ pc[r] = "check"
    /\ IF findPending(CHUNK_SIZE) = <<>>
       THEN /\ summarizing' = FALSE
            /\ alarm' = FALSE
            /\ Return(r)
       ELSE /\ pending' = [pending EXCEPT ![r] = findPending(CHUNK_SIZE)]
            /\ pc' = [pc EXCEPT ![r] = "analyzing"]
            /\ UNCHANGED <<summarizing, alarm, kind, results, initPc>>
    /\ UNCHANGED <<dbVars, envVars>>
    /\ UNCHANGED <<searchVars, restVars>>

\* const running = await isQueueRunning(); if (!running) return;
\* const pending = await findPending(CHUNK_SIZE); if empty: queue complete.
\* (two reads in a row: one step)
processNextBatch_findPending(r) ==
    /\ pc[r] = "check"
    /\ IF ~summarizing
       THEN /\ Return(r)
            /\ UNCHANGED <<summarizing, alarm>>
       ELSE IF findPending(CHUNK_SIZE) = <<>>
       THEN /\ summarizing' = FALSE
            /\ alarm' = FALSE
            /\ Return(r)
       ELSE /\ pending' = [pending EXCEPT ![r] = findPending(CHUNK_SIZE)]
            /\ pc' = [pc EXCEPT ![r] = "analyzing"]
            /\ UNCHANGED <<summarizing, alarm, kind, results, initPc>>
    /\ UNCHANGED <<dbVars, envVars>>
    /\ UNCHANGED <<searchVars, restVars>>

\* after the for loop: remainingCount = await countPending()
processNextBatch_countPending(r) ==
    /\ pc[r] = "count"
    /\ IF countPending > 0
       THEN /\ alarm' = TRUE
            /\ summarizing' = summarizing
       ELSE /\ summarizing' = FALSE
            /\ alarm' = alarm
    /\ Return(r)
    /\ UNCHANGED <<dbVars, envVars>>
    /\ UNCHANGED <<searchVars, restVars>>

\* ---------------------------------------------------------- summarizeBookmark
\* await updateStatus(bookmark.id, 'analyzing')
summarizeBookmark_analyzing(r) ==
    /\ pc[r] = "analyzing"
    /\ updateStatus(Current(r).id, "analyzing")
    /\ pc' = [pc EXCEPT ![r] = "enrich"]
    /\ UNCHANGED <<summaries, summarizing, alarm, initPc, kind, pending, results, envVars>>
    /\ UNCHANGED <<searchVars, restVars>>

\* getActiveAIService returned null, or aiService.summarize threw: catch
summarizeBookmark_enrichFailed(r) ==
    /\ pc[r] = "enrich"
    /\ Catch(r)
    /\ UNCHANGED <<summaries, summarizing, alarm, envVars>>
    /\ UNCHANGED <<searchVars, restVars>>

\* a provider is configured, the page fetch returned (content or null, it
\* never throws) and aiService.summarize returned a result
summarizeBookmark_enriched(r) ==
    /\ pc[r] = "enrich"
    /\ pc' = [pc EXCEPT ![r] = "save"]
    /\ UNCHANGED <<dbVars, summarizing, alarm, initPc, kind, pending, results, envVars>>
    /\ UNCHANGED <<searchVars, restVars>>

\* AISummaryRepository.create: INSERT_SUMMARY; ai_summaries.bookmark_id is
\* UNIQUE, so the INSERT of a second row for the bookmark is rejected and the
\* error lands in the catch block; otherwise the row is stored (then the tags)
summarizeBookmark_save(r) ==
    /\ pc[r] = "save"
    /\ IF summaries[Current(r).id] > 0
       THEN /\ Catch(r)
            /\ UNCHANGED summaries
       ELSE /\ summaries' = [summaries EXCEPT ![Current(r).id] = @ + 1]
            /\ pc' = [pc EXCEPT ![r] = "complete"]
            /\ UNCHANGED <<status, retryCount, kind, pending, results, initPc>>
    /\ UNCHANGED <<summarizing, alarm, envVars>>
    /\ UNCHANGED <<searchVars, restVars>>

\* updateStatus(bookmark.id, 'completed'), return true
summarizeBookmark_completed(r) ==
    /\ pc[r] = "complete"
    /\ updateStatus(Current(r).id, "completed")
    /\ Returned(r, TRUE)
    /\ UNCHANGED <<summaries, summarizing, alarm, envVars>>
    /\ UNCHANGED <<searchVars, restVars>>

\* summarizeBookmarkById (called by onBookmarkCreated): findById, skip completed
summarizeBookmarkById(r, b) ==
    /\ initPc # "start"
    /\ FreeRun(r)
    /\ status[b] # "completed"
    /\ Call(r, "byId", "analyzing")
    /\ pending' = [pending EXCEPT ![r] = <<mapRowToBookmark(b)>>]
    /\ resumed' = FALSE
    /\ UNCHANGED <<dbVars, summarizing, alarm, initPc, results, analyzingAtStart, stopped>>
    /\ UNCHANGED <<searchVars, restVars>>

\* ------------------------------------------------------------ initializeAsync
\* the recovery pass: Reset any bookmarks stuck in 'analyzing' state
RecoveryPass ==
    /\ resetAnalyzingToRetry
    /\ initPc' = "done"
    /\ analyzingAtStart' = {}

\* handlers and listeners registered, database ready, the flag read from
\* session storage: resume the queue if it is set (await processNextBatch),
\* otherwise go straight on to the recovery pass
initializeAsync_resume(r) ==
    /\ initPc = "start"
    /\ FreeRun(r)
    /\ IF summarizing
       THEN /\ Call(r, "init", "check")
            /\ initPc' = "batch"
            /\ UNCHANGED <<status, retryCount, analyzingAtStart>>
       ELSE /\ RecoveryPass
            /\ UNCHANGED <<pc, kind>>
    /\ UNCHANGED <<summaries, summarizing, alarm, pending, results, resumed, stopped>>
    /\ UNCHANGED <<searchVars, restVars>>

\* the resumed batch has returned: the recovery pass
initializeAsync_reset ==
    /\ initPc = "reset"
    /\ RecoveryPass
    /\ UNCHANGED <<summaries, summarizing, alarm, runVars, resumed, stopped>>
    /\ UNCHANGED <<searchVars, restVars>>

\* the service worker is terminated and started again: in-memory state is
\* lost; the database, session storage and alarms persist
ServiceWorkerRestart ==
    /\ \A b \in Bookmarks : retryCount[b] < MaxRetryCount
    /\ pc' = [r \in Runs |-> "idle"]
    /\ kind' = [r \in Runs |-> "none"]
    /\ pending' = [r \in Runs |-> <<>>]
    /\ results' = [r \in Runs |-> <<>>]
    /\ initPc' = "start"
    /\ analyzingAtStart' = {b \in Bookmarks : status[b] = "analyzing"}
    /\ resumed' = summarizing
    /\ stopped' = stopped
    /\ UNCHANGED <<dbVars, summarizing, alarm>>
    /\ UNCHANGED <<searchVars, restVars>>

Next ==
    \/ \E r \in Runs : startSummarizationQueue(r)
    \/ stopSummarizationQueue
    \/ \E r \in Runs : handleSummarizeAlarm(r)
    \/ \E r \in Runs : processNextBatch_findPending(r)
    \/ \E r \in Runs : processNextBatch_countPending(r)
    \/ \E r \in Runs : summarizeBookmark_analyzing(r)
    \/ \E r \in Runs : summarizeBookmark_enrichFailed(r)
    \/ \E r \in Runs : summarizeBookmark_enriched(r)
    \/ \E r \in Runs : summarizeBookmark_save(r)
    \/ \E r \in Runs : summarizeBookmark_completed(r)
    \/ \E r \in Runs, b \in Bookmarks : summarizeBookmarkById(r, b)
    \/ \E r \in Runs : initializeAsync_resume(r)
    \/ initializeAsync_reset
    \/ ServiceWorkerRestart

Spec == Init /\ [][Next]_vars


\* ---------------------------------------------------------------- fairness
\* Every attempt fails (no provider is configured); the queue runs on its own:
\* no summarize-by-id events.  The worker keeps executing its own handlers
\* and the alarm fires once scheduled, hence the weak fairness.
QueueStep ==
    \/ \E r \in Runs : handleSummarizeAlarm(r)
    \/ \E r \in Runs : processNextBatch_findPending(r)
    \/ \E r \in Runs : processNextBatch_countPending(r)
    \/ \E r \in Runs : summarizeBookmark_analyzing(r)
    \/ \E r \in Runs : summarizeBookmark_enrichFailed(r)
    \/ \E r \in Runs : initializeAsync_resume(r)
    \/ initializeAsync_reset

NextNoProvider ==
    \/ \E r \in Runs : startSummarizationQueue(r)
    \/ stopSummarizationQueue
    \/ QueueStep
    \/ ServiceWorkerRestart

SpecNoProvider == Init /\ [][NextNoProvider]_vars /\ WF_vars(QueueStep)

\* ------------------------------------------------- search as a function
\* The ranking: one search at a time over a stored catalogue and a saved
\* strategy order, with every query, limit and answer of Fuse.js and
\* pinyin-match; the clock stands still.
NoCall == \A c \in Calls : callPc[c] = "idle"

SearchInit ==
    /\ QueueStart
    /\ RestStart
    /\ EngineStart
    /\ \E pinA \in BOOLEAN, pinB \in BOOLEAN, catA \in {NoCategory, N_Dev} :
          dbBookmarks = Catalogue(pinA, pinB, catA)
    /\ searchStrategyOrder \in SavedOrders
    /\ requireAvailable = TRUE

SearchNext ==
    \/ NoCall /\ \E c \in Calls, q \in Queries, lim \in Limits : search_blank(c, q, lim)
    \/ NoCall /\ \E c \in Calls : search_refreshIndex(c)
    \/ \E c \in Calls : refreshStrategies(c)
    \/ \E c \in Calls : refreshIndex_ttl(c)
    \/ \E c \in Calls : refreshIndex_getAllForIndex(c)
    \/ \E c \in AtResults, q \in Queries, lim \in Limits, searchType \in SearchTypes,
          fuse \in FuseOptions, pinyin \in PinyinOptions :
          search_results(c, q, lim, searchType, fuse, pinyin, {})
    \/ \E c \in Calls, b \in BookmarkIds : recordSelection(c, b)
    \/ \E c \in Calls : onClose(c)

SearchSpec == SearchInit /\ [][SearchNext]_vars

\* ------------------------------------------------- the index cache
\* The cache of the index under overlapping searches, category mutations
\* and the clock; the searches are `@Dev` with the default options.
IndexQueries == {Q_atDev}

IndexInit ==
    /\ QueueStart
    /\ RestStart
    /\ EngineStart
    /\ dbBookmarks \in {<<>>, Catalogue(FALSE, TRUE, NoCategory)}
    /\ searchStrategyOrder = <<>>
    /\ requireAvailable \in BOOLEAN

IndexNext ==
    \/ \E c \in Calls : search_refreshIndex(c)
    \/ \E c \in Calls : refreshStrategies(c)
    \/ \E c \in Calls : refreshIndex_ttl(c)
    \/ \E c \in Calls : refreshIndex_getAllForIndex(c)
    \/ \E c \in AtResults, q \in IndexQueries :
          search_results(c, q, DEFAULT_LIMIT, "default", [b \in BookmarkIds |-> NoHit], {}, {})
    \/ \E c \in Calls : onClose(c)
    \/ \E b \in Reassigned, category \in {NoCategory, N_Dev} : setBookmarkCategory(b, category)
    \/ CategoryRepository_create(N_Eng)
    \/ CategoryRepository_update(N_Dev, N_Eng)
    \/ CategoryRepository_update(N_Eng, N_Dev)
    \/ CategoryRepository_delete(N_Ops)
    \/ ClockTick

IndexSpec == IndexInit /\ [][IndexNext]_vars

\* ------------------------------------------------- OverlaySpec
\* The overlay alone: the field changes, timeouts fire, responses arrive.
OverlayInit ==
    /\ QueueStart
    /\ RestStart
    /\ EngineStart
    /\ dbBookmarks = <<>>
    /\ searchStrategyOrder = <<>>
    /\ requireAvailable = TRUE

OverlayNext ==
    \/ \E queryKind \in QueryKinds : setQuery(queryKind)
    \/ performSearch_blank
    \/ performSearch_send
    \/ \E k \in 1..MaxQueries : performSearch_response(k)

OverlaySpec == OverlayInit /\ [][OverlayNext]_vars

\* ------------------------------------------------- RepairSpec
\* Repair scans next to the queue's fetch of pages that are not stored yet.
RepairInit ==
    /\ QueueStart
    /\ OverlayStart
    /\ FetcherStart
    /\ DetectorStart
    /\ ToggleStart
    /\ RepairIdle
    /\ pageContent \in [Bookmarks -> StoredContents]
    /\ EngineStart
    /\ dbBookmarks = <<>>
    /\ searchStrategyOrder = <<>>
    /\ requireAvailable = TRUE

RepairNext ==
    \/ refetchGarbledContent
    \/ refetch_fetchPageContentSmart
    \/ \E content \in FetchedContents : refetch_fetched(content)
    \/ refetch_updateContent
    \/ refetch_updateContent_throws
    \/ refetch_markFetchFailed
    \/ \E b \in Bookmarks : summarizeBookmark_row(b)
    \/ summarizeBookmark_fetchPageContent
    \/ \E content \in FetchedContents : summarizeBookmark_fetched(content)

RepairSpec == RepairInit /\ [][RepairNext]_vars

\* ------------------------------------------------- FetchSpec
\* Concurrent calls of fetchPageContentSmart, as the queue, the repair scan
\* and the bookmark listeners issue them.
FetchInit ==
    /\ QueueStart
    /\ RestStart
    /\ EngineStart
    /\ dbBookmarks = <<>>
    /\ searchStrategyOrder = <<>>
    /\ requireAvailable = TRUE

FetchNext ==
    \/ \E f \in Fetches, page \in Pages : fetchPageContentSmart(f, page)
    \/ \E f \in Fetches, ok \in BOOLEAN : fetchViaHttp(f, ok)
    \/ \E f \in Fetches : fetchViaTab(f)
    \/ \E f \in Fetches : fetchViaTab_create(f)
    \/ \E f \in Fetches : fetchViaTab_create_throws(f)
    \/ \E f \in Fetches : userClosesTab(f)
    \/ \E f \in Fetches, loads \in BOOLEAN : fetchViaTab_load(f, loads)
    \/ \E f \in Fetches, solved \in BOOLEAN : fetchViaTab_challenge(f, solved)
    \/ \E f \in Fetches : fetchViaTab_remove(f)
    \/ \E f \in Fetches : fetchViaTab_release(f)

FetchSpec == FetchInit /\ [][FetchNext]_vars

\* ------------------------------------------------- CatchSpec
\* Searches whose optional sub-steps throw: frecency.sort inside
\* sortByFrecency and the write of the search history.
CatchQueries == {Q_react, Q_atdevReact}

CatchInit ==
    /\ QueueStart
    /\ RestStart
    /\ EngineStart
    /\ \E pinA \in BOOLEAN : dbBookmarks = Catalogue(pinA, FALSE, N_Dev)
    /\ searchStrategyOrder = <<>>
    /\ requireAvailable = TRUE

CatchNext ==
    \/ \E c \in Calls : search_refreshIndex(c)
    \/ \E c \in Calls : refreshStrategies(c)
    \/ \E c \in Calls : refreshIndex_ttl(c)
    \/ \E c \in Calls : refreshIndex_getAllForIndex(c)
    \/ \E c \in AtResults, q \in CatchQueries, failures \in SUBSET Failures :
          search_results(c, q, DEFAULT_LIMIT, "default", [b \in BookmarkIds |-> NoHit], {},
                         failures)
    \/ \E c \in Calls, b \in BookmarkIds : recordSelection(c, b)
    \/ \E c \in Calls : onClose(c)

CatchSpec == CatchInit /\ [][CatchNext]_vars

\* ------------------------------------------------- StrategySpec
\* Searches under the saved strategy orders that loadSearchStrategies has to
\* merge with the defaults.
StrategyInit ==
    /\ QueueStart
    /\ RestStart
    /\ EngineStart
    /\ dbBookmarks = Catalogue(FALSE, FALSE, N_Dev)
    /\ searchStrategyOrder \in PartialOrders
    /\ requireAvailable = TRUE

StrategyNext ==
    \/ \E c \in Calls : search_refreshIndex(c)
    \/ \E c \in Calls : refreshStrategies(c)
    \/ \E c \in Calls : refreshIndex_ttl(c)
    \/ \E c \in Calls : refreshIndex_getAllForIndex(c)
    \/ \E c \in AtResults :
          search_results(c, Q_react, DEFAULT_LIMIT, "default", [b \in BookmarkIds |-> NoHit],
                         {}, {})
    \/ \E c \in Calls : onClose(c)

StrategySpec == StrategyInit /\ [][StrategyNext]_vars

\* ------------------------------------------------- ScoreSpec
\* Searches with one, several or all strategies enabled: calculateScore is
\* called with every position of every such list.
ScoreInit ==
    /\ QueueStart
    /\ RestStart
    /\ EngineStart
    /\ \E pinA \in BOOLEAN : dbBookmarks = Catalogue(pinA, FALSE, N_Dev)
    /\ searchStrategyOrder \in EnabledOrders
    /\ requireAvailable = TRUE

ScoreNext ==
    \/ \E c \in Calls : search_refreshIndex(c)
    \/ \E c \in Calls : refreshStrategies(c)
    \/ \E c \in Calls : refreshIndex_ttl(c)
    \/ \E c \in Calls : refreshIndex_getAllForIndex(c)
    \/ \E c \in AtResults, q \in {Q_react, Q_React} :
          search_results(c, q, DEFAULT_LIMIT, "default", [b \in BookmarkIds |-> NoHit],
                         {}, {})
    \/ \E c \in Calls : onClose(c)

ScoreSpec == ScoreInit /\ [][ScoreNext]_vars

\* ------------------------------------------------- DetectSpec
\* The detector on texts of every kind it tells apart.
DetectInit ==
    /\ QueueStart
    /\ OverlayStart
    /\ RepairStart
    /\ FetcherStart
    /\ ToggleStart
    /\ detected \in Samples
    /\ detection = NoDetection
    /\ EngineStart
    /\ dbBookmarks = <<>>
    /\ searchStrategyOrder = <<>>
    /\ requireAvailable = TRUE

DetectNext == detect

DetectSpec == DetectInit /\ [][DetectNext]_vars

\* ------------------------------------------------- ToggleSpec
\* The shortcut pressed at any moment, the timeouts and the steps of
\* handleToggleSearch.
ToggleInit ==
    /\ QueueStart
    /\ OverlayStart
    /\ RepairStart
    /\ FetcherStart
    /\ DetectorStart
    /\ ToggleIdle
    /\ isDev \in BOOLEAN
    /\ EngineStart
    /\ dbBookmarks = <<>>
    /\ searchStrategyOrder = <<>>
    /\ requireAvailable = TRUE

ToggleNext ==
    \/ onCommand
    \/ onTimeout
    \/ \E r \in ToggleRuns, injectable \in BOOLEAN : handleToggleSearch_query(r, injectable)
    \/ \E r \in ToggleRuns, delivered \in BOOLEAN : handleToggleSearch_sendMessage(r, delivered)
    \/ \E r \in ToggleRuns, injected \in BOOLEAN : handleToggleSearch_inject(r, injected)
    \/ \E r \in ToggleRuns : handleToggleSearch_wait(r)
    \/ \E r \in ToggleRuns, delivered \in BOOLEAN : handleToggleSearch_resend(r, delivered)

ToggleSpec == ToggleInit /\ [][ToggleNext]_vars

\* ------------------------------------------------- RefreshSpec
\* Searches that race reloads of the index, reloads that fail, and category
\* assignments that invalidate it.
\* a category search, and a keyword search with a hit of Fuse.js
RefreshInputs ==
    { [query |-> Q_atDev, fuse |-> [b \in BookmarkIds |-> NoHit]],
      [query |-> Q_tG, fuse |-> [b \in BookmarkIds |-> IF b = 3 THEN 0 ELSE NoHit]] }

RefreshInit ==
    /\ QueueStart
    /\ RestStart
    /\ EngineStart
    /\ dbBookmarks \in {<<>>, Catalogue(FALSE, TRUE, NoCategory)}
    /\ searchStrategyOrder = <<>>
    /\ requireAvailable = TRUE

RefreshNext ==
    \/ \E c \in Calls : search_refreshIndex(c)
    \/ \E c \in Calls : refreshStrategies(c)
    \/ \E c \in Calls : refreshIndex_ttl(c)
    \/ \E c \in Calls : refreshIndex_getAllForIndex(c)
    \/ \E c \in Calls : refreshIndex_getAllForIndex_throws(c)
    \/ \E c \in AtResults, i \in RefreshInputs :
          search_results(c, i.query, DEFAULT_LIMIT, "default", i.fuse, {}, {})
    \/ \E c \in Calls : onClose(c)
    \/ \E b \in Reassigned, category \in {NoCategory, N_Dev} : setBookmarkCategory(b, category)
    \/ ClockTick

RefreshSpec == RefreshInit /\ [][RefreshNext]_vars

\* ------------------------------------------------------- shared vocabulary
\* the step is not a restart of the service worker
NoRestart == initPc' # "start"

\* invocation r runs the catch block of summarizeBookmark in this step
CatchStep(r) ==
    /\ NoRestart
    /\ \/ pc[r] = "enrich" /\ pc'[r] \notin {"enrich", "save"}
       \/ pc[r] = "save" /\ pc'[r] \notin {"save", "complete"}

\* a processNextBatch invocation that has passed its running-flag check
BatchInFlight(r) ==
    /\ kind[r] \in {"batch", "init"}
    /\ pc[r] \in {"analyzing", "enrich", "save", "complete", "count"}

\* nothing is scheduled and nothing is running
Quiescent ==
    /\ initPc = "done"
    /\ ~alarm
    /\ \A r \in Runs : pc[r] = "idle"

\* ------------------------------------------------------------------ claims

\* C1: when enrichment of a bookmark fails, a stored retryCount of 2 gives
\* status failed, and a stored retryCount of 1 gives status pending with the
\* stored retryCount raised to 2.  (Stated for the runs whose row was not
\* changed by anyone else since they read it.)
C1_RetryBoundary ==
    [][\A r \in Runs : (CatchStep(r) /\ Current(r).retryCount = retryCount[Current(r).id]) =>
        LET b == Current(r).id
        IN  /\ retryCount[b] = 2 => status'[b] = "failed"
            /\ retryCount[b] = 1 => (status'[b] = "pending" /\ retryCount'[b] = 2)]_vars

\* C2: a bookmark whose status is failed has a stored retryCount of at least 3.
C2_FailedHasThreeRetries ==
    \A b \in Bookmarks : status[b] = "failed" => retryCount[b] >= 3

\* C3: if every attempt fails the queue makes only finitely many attempts:
\* from some point on no bookmark is being enriched any more.
C3_FinitelyManyAttempts ==
    <>[](\A r \in Runs : pc[r] # "enrich")

\* C4: at most one batch run is past its running-flag check at any time.
C4_OneBatchInFlight ==
    Cardinality({r \in Runs : BatchInFlight(r)}) <= 1

\* C5: a status changes only along pending->analyzing, analyzing->completed,
\* analyzing->pending and analyzing->failed.
C5_StatusTransitions ==
    [][\A b \in Bookmarks :
        status'[b] # status[b] =>
            <<status[b], status'[b]>> \in
                { <<"pending", "analyzing">>, <<"analyzing", "completed">>,
                  <<"analyzing", "pending">>, <<"analyzing", "failed">> }]_vars

C7_ResumesWithoutLoss ==
    (resumed /\ Quiescent) =>
        \A b \in Bookmarks : status[b] \in {"completed", "failed"}

\* C8: every bookmark that was analyzing when the process started is pending,
\* with retryCount one higher, and selectable once the recovery pass has run.
C8_AnalyzingAtStartIsReset ==
    [][(initPc # "done" /\ initPc' = "done") =>
        \A b \in analyzingAtStart :
            /\ status'[b] = "pending"
            /\ retryCount'[b] = retryCount[b] + 1
            /\ Selectable(b)']_vars

\* C9: a run that reaches the Summary insert for a bookmark that already has
\* a Summary goes on to mark it completed and leaves exactly one Summary.
C9_ExistingSummaryIsSkipped ==
    [][\A r \in Runs :
        (pc[r] = "save" /\ pc'[r] # "save" /\ NoRestart
            /\ summaries[Current(r).id] > 0) =>
        /\ pc'[r] = "complete"
        /\ summaries'[Current(r).id] = 1]_vars

C11_NoOpWhenNotRunning ==
    [][\A r \in Runs :
        (pc[r] = "check" /\ pc'[r] # "check" /\ NoRestart /\ ~summarizing) =>
            /\ pc'[r] = "idle"
            /\ dbVars' = dbVars
            /\ alarm' = alarm
            /\ summarizing' = summarizing]_vars

\* C11 witness: a processNextBatch invocation is at its running-flag check
\* while the flag is false, with a selectable bookmark and the alarm armed.
C11_Witness ==
    \E r \in Runs :
        /\ pc[r] = "check"
        /\ ~summarizing
        /\ alarm
        /\ findPending(CHUNK_SIZE) # <<>>

\* ------------------------------------------------- the answer of a search
\* a search has returned and its answer is shown
Answered == \E c \in Calls : callPc[c] = "returned"

\* the enabled strategies and the keyword of the search that returned
EnabledNow == getEnabledStrategies(activeStrategies)
EffectiveQuery ==
    IF isCategorySearch(query) THEN parseCategorySearch(query).keyword ELSE query

\* the search was `@token` alone / one the ranking ran for
CategoryOnly == Answered /\ isCategorySearch(query) /\ EffectiveQuery = <<>>
Ranked == Answered /\ Len(trim(query)) > 0 /\ ~CategoryOnly

Positions == 1..Len(finalResults)
ResultIds == [k \in Positions |-> finalResults[k].bookmark.id]

\* C12: in the value a search returns (ranked search and `@token` alone
\* alike) every pinned result stands before every result that is not pinned,
\* whatever the scores and the recorded selections.
C12_PinnedFirst ==
    \A i \in Positions, j \in Positions :
        (i < j /\ finalResults[j].bookmark.isPinned) => finalResults[i].bookmark.isPinned

\* a ranked search returned a pinned result before one with a higher score
\* that the user had selected before
C12_Witness ==
    /\ Ranked
    /\ \E i \in Positions, j \in Positions :
          /\ i < j
          /\ finalResults[i].bookmark.isPinned
          /\ ~finalResults[j].bookmark.isPinned
          /\ finalResults[j].score > finalResults[i].score
          /\ frecency[finalResults[j].bookmark.id] > 0

\* C13: for a query `@token rest` with a keyword, every result returned is a
\* bookmark whose category name equals the token, case ignored, whichever
\* phase found it.
C13_OnlyFromCategory ==
    (Answered /\ isCategorySearch(query) /\ EffectiveQuery # <<>>) =>
        \A k \in Positions :
            categoryFilterMatches(finalResults[k].bookmark,
                                  parseCategorySearch(query).category)

\* position (from 1) of the last enabled fuzzy strategy, 0 if there is none
LastFuzzy ==
    LET fuzzy == {k \in 1..Len(EnabledNow) : EnabledNow[k].matchType = "fuzzy"}
    IN  IF fuzzy = {} THEN 0 ELSE CHOOSE k \in fuzzy : \A j \in fuzzy : k >= j

\* position (from 1) of the first enabled exact or phonetic strategy that
\* matches the bookmark of result k, 0 if there is none
MatchedAt(k) ==
    LET hits == {i \in 1..Len(EnabledNow) :
                   /\ EnabledNow[i].matchType \in {"exact_case", "exact", "pinyin"}
                   /\ \E text \in getFieldText(finalResults[k].bookmark, EnabledNow[i].field) :
                         checkMatch(EffectiveQuery, text, EnabledNow[i].matchType, pinyinHits)}
    IN  IF hits = {} THEN 0 ELSE CHOOSE i \in hits : \A j \in hits : i <= j

\* C14: a fuzzy hit never has a score above that of a result matched by an
\* exact or phonetic strategy that stands above an enabled fuzzy strategy,
\* and among fuzzy hits the better Fuse.js score gives the higher score.
C14_FuzzyBelowHigherPriority ==
    Ranked =>
        /\ \A f \in Positions, e \in Positions :
              (/\ finalResults[f].matchType = "fuzzy"
               /\ finalResults[e].matchType # "fuzzy"
               /\ MatchedAt(e) < LastFuzzy)
              => finalResults[f].score <= finalResults[e].score
        /\ \A f \in Positions, g \in Positions :
              (/\ finalResults[f].matchType = "fuzzy"
               /\ finalResults[g].matchType = "fuzzy"
               /\ fuseScore[finalResults[f].bookmark.id] < fuseScore[finalResults[g].bookmark.id])
              => finalResults[f].score > finalResults[g].score

\* the enabled strategy at position i is exact or phonetic and matches the
\* bookmark of result k
MatchesAt(k, i) ==
    /\ EnabledNow[i].matchType \in {"exact_case", "exact", "pinyin"}
    /\ \E text \in getFieldText(finalResults[k].bookmark, EnabledNow[i].field) :
          checkMatch(EffectiveQuery, text, EnabledNow[i].matchType, pinyinHits)

\* result k was found by the strategy phase
FromStrategyPhase(k) == finalResults[k].matchType \in {"exact_case", "exact", "pinyin"}

\* C15: no bookmark is returned twice, and a result of the strategy phase
\* carries the score, match type and field of one strategy, the first
\* enabled strategy that is not fuzzy and matches the bookmark:
\* score = calculateScore(its index among the enabled, their number).
C15_OnceAndByFirstStrategy ==
    /\ \A i \in Positions, j \in Positions : i # j => ResultIds[i] # ResultIds[j]
    /\ Ranked =>
          \A k \in Positions : FromStrategyPhase(k) =>
              \E i \in 1..Len(EnabledNow) :
                  /\ MatchesAt(k, i)
                  /\ \A h \in 1..(i - 1) : ~MatchesAt(k, h)
                  /\ finalResults[k].score =
                        FuseScale * calculateScore(i - 1, Len(EnabledNow))
                  /\ finalResults[k].matchType = EnabledNow[i].matchType
                  /\ finalResults[k].matchedField = EnabledNow[i].field

\* a result of the strategy phase whose bookmark matches two strategies,
\* the first of them not at the top
C15_Witness ==
    /\ Ranked
    /\ \E k \in Positions, i \in 1..Len(EnabledNow), j \in 1..Len(EnabledNow) :
          /\ FromStrategyPhase(k)
          /\ 1 < i
          /\ i < j
          /\ MatchesAt(k, i)
          /\ MatchesAt(k, j)
          /\ \A h \in 1..(i - 1) : ~MatchesAt(k, h)

\* the indexed bookmarks of the category the query names
InCategory ==
    {k \in 1..Len(searchIndex) :
        categoryFilterMatches(searchIndex[k], parseCategorySearch(query).category)}

\* searchIndex[i] comes before searchIndex[j] in the order of the category
\* short-cut: pinned first, then the later update
ListedBefore(i, j) ==
    \/ searchIndex[i].isPinned /\ ~searchIndex[j].isPinned
    \/ /\ searchIndex[i].isPinned = searchIndex[j].isPinned
       /\ searchIndex[i].lastUpdated > searchIndex[j].lastUpdated

TitleExactCaseFirst ==
    Len(EnabledNow) > 0 /\ EnabledNow[1].id = "title_exact_case"

\* the indexed bookmarks whose title contains the query, case observed
TitleHolds == {b \in 1..Len(searchIndex) : includes(searchIndex[b].originalTitle, query)}

\* the result for searchIndex[b] has match type exact_case and no result
\* that is not pinned has a higher score
TopExactCaseResult(b) ==
    \E k \in Positions :
        /\ finalResults[k].bookmark = searchIndex[b]
        /\ finalResults[k].matchType = "exact_case"
        /\ \A j \in Positions :
              ~finalResults[j].bookmark.isPinned =>
                  finalResults[j].score <= finalResults[k].score

\* C17 as stated: if the title of B contains Q, case observed, and no enabled
\* strategy ranks above title_exact_case, B is among the results with match
\* type exact_case and the highest score of the results that are not pinned.
C17_TitleExactCaseOnTop ==
    (Answered /\ TitleExactCaseFirst) =>
        \A b \in TitleHolds : TopExactCaseResult(b)

\* C17, amended: for a query Q that is not blank and does not have the
\* `@category` form, if the title of B contains Q, case observed, and
\* title_exact_case is the first enabled strategy, then B, when it is among
\* the results, has match type exact_case and a score no result exceeds; B is
\* among the results whenever the index holds no more than `limit` bookmarks
\* (only the cut to `limit` can drop it).
C17_TitleExactCaseOnTopWithinLimit ==
    (Ranked /\ ~isCategorySearch(query) /\ TitleExactCaseFirst) =>
        \A b \in TitleHolds :
            /\ (\E k \in Positions : finalResults[k].bookmark = searchIndex[b])
                  => /\ TopExactCaseResult(b)
                     /\ \A j \in Positions, k \in Positions :
                           finalResults[k].bookmark = searchIndex[b]
                              => finalResults[j].score <= finalResults[k].score
            /\ Len(searchIndex) <= limitOption
                  => \E k \in Positions : finalResults[k].bookmark = searchIndex[b]

\* B is returned by title_exact_case next to a fuzzy hit of lower score
C17_Witness ==
    /\ Ranked /\ ~isCategorySearch(query) /\ TitleExactCaseFirst
    /\ \E b \in TitleHolds, k \in Positions, f \in Positions :
          /\ finalResults[k].bookmark = searchIndex[b]
          /\ finalResults[f].matchType = "fuzzy"
          /\ finalResults[f].score < finalResults[k].score

\* the scenario: A ("React Guide", not pinned), B ("react tutorial", pinned)
\* and C (url react.dev, title "notes") are stored and indexed, only
\* title_exact and url_exact are saved as enabled, in that order, nothing has
\* been selected, and a search with the default limit has returned
TitleThenUrl ==
    /\ Answered
    /\ searchStrategyOrder = SavedOrder(<<"title_exact", "url_exact">>)
    /\ \E catA \in {NoCategory, N_Dev} : searchIndex = Catalogue(FALSE, TRUE, catA)
    /\ \A b \in BookmarkIds : frecency[b] = 0
    /\ limitOption = DEFAULT_LIMIT

\* C18: with only title_exact and url_exact enabled, in that order, and no
\* selections, a ranked search returns the pinned matches first, then the
\* bookmarks matched by title that are not pinned, then those matched by url
\* only; the query "react" returns B, A, C.
C18_PinnedThenTitleThenUrl ==
    TitleThenUrl =>
        /\ Ranked =>
              \A i \in Positions, j \in Positions :
                  (i < j) =>
                     /\ finalResults[j].bookmark.isPinned => finalResults[i].bookmark.isPinned
                     /\ (/\ ~finalResults[i].bookmark.isPinned
                         /\ finalResults[j].matchedField = "title")
                        => finalResults[i].matchedField = "title"
        /\ query = Q_react => ResultIds = <<2, 1, 3>>

\* the query "react" was answered in the scenario
C18_Witness == TitleThenUrl /\ query = Q_react /\ Len(finalResults) = 3

\* a call reloads the index in this step
Reloads(c) == callPc[c] = "getAllForIndex" /\ callPc'[c] = "results"

\* C19: since the last invalidateIndex() the index is reloaded from storage
\* at most once in 60 s, however many searches run and however they
\* interleave.
C19_OneReloadPerWindow ==
    [][\A c \in Calls :
          Reloads(c) =>
              \/ lastReloadAt = NoReload
              \/ now - lastReloadAt >= INDEX_REFRESH_INTERVAL]_vars

\* C20: a mutation of the categories or of the category of a bookmark
\* invalidates the index, so that of the `@category` searches made after the
\* mutation at most one is answered from the rows as they were before it.
C20_StaleForOneSearchAtMost == staleServed <= 1

\* ------------------------------------------------------- C21 .. C30
\* a search is about to read the index while another call is still loading
\* rows that differ from the cached ones
RacesRefresh(c, d) ==
    /\ callPc[c] = "results"
    /\ callPc[d] = "getAllForIndex"
    /\ searchIndex # <<>>
    /\ searchIndex # dbBookmarks

\* C21: the bookmark list and the Fuse.js instance a search reads belong to
\* the same snapshot: in every state the instance, once built, indexes exactly
\* the cached list, also while another call's refresh is in flight.
C21_SameSnapshot ==
    /\ fuseInstance.built => fuseInstance.docs = searchIndex
    /\ ~fuseInstance.built => searchIndex = <<>>

C21_Witness ==
    /\ \E c, d \in Calls : RacesRefresh(c, d)
    /\ fuseInstance.built

\* the call's read of storage fails in this step
RefreshFails(c) == ~callFailed[c] /\ callFailed'[c]

\* the call returns in this step
Returns(c) == callPc[c] = "results" /\ callPc'[c] = "returned"

\* C29: when the read of storage of an index refresh fails, the cached index
\* (list, Fuse.js instance and its time) stays as it was, the search goes on,
\* and what it returns is computed from that cache.
C29_StaleButAvailable ==
    [][\A c \in Calls :
          /\ RefreshFails(c) =>
                /\ UNCHANGED <<searchIndex, fuseInstance, lastIndexUpdate>>
                /\ callPc'[c] = "results"
          /\ (callFailed[c] /\ Returns(c)) =>
                finalResults' =
                    SearchOver(searchIndex, fuseInstance, activeStrategies, frecency,
                               query', limitOption', "default", fuseScore',
                               pinyinHits', {}).final]_vars

\* a search whose refresh failed has returned rows of the old cache, which
\* differ from the stored ones
C29_Witness ==
    \E c \in Calls :
        /\ callFailed[c]
        /\ callPc[c] = "returned"
        /\ \A d \in Calls \ {c} : callPc[d] = "idle"
        /\ finalResults # <<>>
        /\ searchIndex # dbBookmarks

\* the response of the request with this seq arrives in this step
Arrives(seq) == seq \in InFlight /\ seq \notin InFlight'

\* C22: a response that arrives after a newer query has been issued does not
\* replace what the overlay displays.
C22_StaleResponseDiscarded ==
    [][\A seq \in 1..MaxQueries :
          (Arrives(seq) /\ seq < lastIssued) =>
              UNCHANGED <<uiResults, uiHistoryResults>>]_vars

\* a call of fetchPageContentSmart for bookmark b goes out in this step
FetchAttempt(b) == \E f \in fetching' \ fetching : f.id = b

\* C23: no automatic flow, repair scan or queue, starts a fetch of the page
\* of a bookmark that carries the dead-link mark.
C23_NoFetchOnceMarked ==
    [][\A b \in Bookmarks : FetchAttempt(b) => ~fetchFailedAt[b]]_vars

\* reasons of result.errors that stand for a failed or rejected refetch
Rejections == {"dead", "garbled", "shorter"}

\* C24: every bookmark a repair scan counts as failed because the refetch
\* returned nothing usable, or because the new content was still garbled or
\* less than half as long as the old one, carries the dead-link mark once the
\* scan has gone on to the next bookmark.
C24_RejectedIsMarked ==
    \A e \in repairResult.errors :
        (e.reason \in Rejections /\ repairPc # "markFetchFailed") => fetchFailedAt[e.id]

\* the repair flow overwrites the stored content of b in this step
RepairOverwrites(b) ==
    /\ repairPc = "updateContent"
    /\ b \in repairResult'.refetched \ repairResult.refetched

\* C25: the repair flow overwrites the stored content of a bookmark only with
\* content that is not garbled and not less than half as long as the content
\* it replaces.
C25_OverwriteOnlyIfAcceptable ==
    [][\A b \in Bookmarks :
          RepairOverwrites(b) =>
              /\ ~pageContent'[b].isGarbled
              /\ pageContent'[b].length * 2 >= pageContent[b].length]_vars

\* the page behind the call has nothing to extract but the frames message
OnlyBoilerplate(f) == fetchUrl[f].isHttp /\ isFramesFallbackContent(fetchUrl[f].text)

\* C26: a fetch of a page whose only extractable text is the "browser does
\* not support frames" message returns null, whether the HTTP path or the
\* tab path produced the value.
C26_BoilerplateIsNull ==
    \A f \in Fetches :
        (fetchPc[f] = "returned" /\ OnlyBoilerplate(f)) => fetchReturn[f] = NoText

\* C27: however many fetches are under way, at most MAX_CONCURRENT_TABS (2)
\* tabs opened by fetchViaTab exist at the same time.
C27_AtMostTwoTabs == Cardinality(openTabs) <= MAX_CONCURRENT_TABS

\* two tabs are open and a third fetch waits in the loop of fetchViaTab
C27_Witness ==
    /\ Cardinality(openTabs) = MAX_CONCURRENT_TABS
    /\ \E f \in Fetches : fetchPc[f] = "fetchViaTab"

\* call c leaves search() in this step, by a return or by a rejection
Leaves(c) == callPc[c] = "results" /\ callPc'[c] # "results"

\* C28: a search whose history write or whose frecency.sort throws still
\* returns: with the frecency error the candidates keep the order they came
\* in (pinned first, then by score); the history error changes nothing of
\* what is returned.
C28_SubstepFailureTolerated ==
    [][\A c \in Calls :
          Leaves(c) =>
             /\ callPc'[c] = "returned"
             /\ "frecency" \in caught' => finalResults' = sortedResults'
             /\ "frecency" \notin caught' =>
                   finalResults' =
                       SearchOver(searchIndex, fuseInstance, activeStrategies, frecency,
                                  query', limitOption', "default", fuseScore',
                                  pinyinHits', {}).final]_vars

\* both sub-steps threw in a search that returned several rows which
\* frecency would have put in another order
C28_Witness ==
    /\ caught = Failures
    /\ \E c \in Calls : callPc[c] = "returned"
    /\ Len(finalResults) > 1
    /\ finalResults = sortedResults
    /\ finalResults # SearchOver(searchIndex, fuseInstance, activeStrategies, frecency,
                                 query, limitOption, "default", fuseScore, pinyinHits,
                                 {}).final

\* the positions of the saved order whose id is one of the defaults
KnownAt(saved) == {k \in 1..Len(saved) : saved[k].id \in DefaultIds}

\* the j-th of them
KnownPosition(saved, j) ==
    CHOOSE k \in KnownAt(saved) : Cardinality({i \in KnownAt(saved) : i <= k}) = j

\* the positions of the defaults the saved order does not name
AbsentAt(saved) ==
    {d \in 1..Len(DEFAULT_SEARCH_STRATEGIES) :
        \A k \in 1..Len(saved) : saved[k].id # DEFAULT_SEARCH_STRATEGIES[d].id}

\* the j-th of them
AbsentPosition(saved, j) ==
    CHOOSE d \in AbsentAt(saved) : Cardinality({i \in AbsentAt(saved) : i <= d}) = j

\* `merged` is what the merge rule gives for `saved`
MergedAsSaved(saved, merged) ==
    LET n == Cardinality(KnownAt(saved))
    IN  /\ Len(merged) = n + Cardinality(AbsentAt(saved))
        /\ \A j \in 1..n :
              LET entry == saved[KnownPosition(saved, j)]
              IN  merged[j] = [DefaultById(entry.id) EXCEPT !.enabled = entry.enabled]
        /\ \A j \in 1..Cardinality(AbsentAt(saved)) :
              merged[n + j] = DEFAULT_SEARCH_STRATEGIES[AbsentPosition(saved, j)]

\* C30: the loaded strategies are the saved entries whose id is a default, in
\* saved order with the saved enabled flags, then the defaults the saved order
\* does not name, in default order; without a saved order they are the
\* defaults as they stand.
C30_MergeRule ==
    Len(activeStrategies) > 0 =>
        IF Len(searchStrategyOrder) = 0
        THEN activeStrategies = DEFAULT_SEARCH_STRATEGIES
        ELSE MergedAsSaved(searchStrategyOrder, activeStrategies)

\* loaded from a saved order that puts a disabled notes_fuzzy first and
\* names an id that is not a default
C30_Witness ==
    /\ Len(activeStrategies) > 0
    /\ Len(searchStrategyOrder) = 2
    /\ searchStrategyOrder[1] = [id |-> "body_exact", enabled |-> TRUE]
    /\ searchStrategyOrder[2] = [id |-> "notes_fuzzy", enabled |-> FALSE]
    /\ activeStrategies[1].id = "notes_fuzzy"
    /\ Len(activeStrategies) = Len(DEFAULT_SEARCH_STRATEGIES)

\* ------------------------------------------------- C31 .. C39
\* the positions calculateScore is called with for the loaded strategies
ScoredPositions == 0..(Len(EnabledNow) - 1)

\* the scores fall strictly from position to position, starting at 100
ScoresFall ==
    /\ \A i, j \in ScoredPositions :
          i < j => calculateScore(i, Len(EnabledNow)) > calculateScore(j, Len(EnabledNow))
    /\ Len(EnabledNow) > 0 =>
          calculateScore(0, Len(EnabledNow)) = MAX_SCORE * ScoreDen(Len(EnabledNow))

\* C31 as stated: the scores of the enabled strategies fall strictly with the
\* position, from 100 at position 0 to 40 at the last position.
C31_From100DownTo40 ==
    /\ ScoresFall
    /\ Len(EnabledNow) > 0 =>
          calculateScore(Len(EnabledNow) - 1, Len(EnabledNow))
             = MIN_SCORE * ScoreDen(Len(EnabledNow))

\* C31: the scores of the enabled strategies fall strictly with the position
\* from 100 at position 0; the last position has 40 when two or more
\* strategies are enabled, and 100 when it is the only one.
C31_DistinctAndFalling ==
    /\ ScoresFall
    /\ Len(EnabledNow) > 1 =>
          calculateScore(Len(EnabledNow) - 1, Len(EnabledNow))
             = MIN_SCORE * ScoreDen(Len(EnabledNow))
    /\ Len(EnabledNow) = 1 =>
          calculateScore(0, 1) = MAX_SCORE * ScoreDen(1)

\* a search under all eighteen strategies returned rows that two different
\* strategies scored
C31_Witness ==
    /\ Ranked
    /\ Len(EnabledNow) = Len(DEFAULT_SEARCH_STRATEGIES)
    /\ \E k, l \in Positions : finalResults[k].score > finalResults[l].score

\* the flagged bookmarks whose processing message has gone out
Announced ==
    IF repairPc = "idle" THEN Len(needsRefetchList)
    ELSE IF repairPc = "fetch" THEN refetchIndex - 1
    ELSE refetchIndex

C33_FortyReplacementsGarbled ==
    (detected = FortyReplacements /\ detection # NoDetection) => detection.isGarbled

\* a batch run returns in this step and the running flag goes from set to clear
QueueCompletes ==
    \E r \in Runs :
        /\ kind[r] = "batch"
        /\ pc[r] \in {"check", "count"}
        /\ pc'[r] = "idle"
        /\ summarizing
        /\ ~summarizing'

\* rows GET_BOOKMARKS_PENDING selects after the step
SelectableAfter ==
    {b \in Bookmarks :
        status'[b] = "pending" \/ (status'[b] = "failed" /\ retryCount'[b] < MAX_RETRIES)}

\* C34: whenever the queue itself clears the running flag, no bookmark
\* eligible for selection remains: none pending, none failed with a retry
\* count below 3.
C34_CompleteMeansNoneSelectable ==
    [][QueueCompletes => SelectableAfter = {}]_vars

\* bookmarks that are completed with their Summary stored
Done == {b \in Bookmarks : status[b] = "completed" /\ summaries[b] > 0}

\* C35: once a bookmark is completed with its Summary stored, no later or
\* concurrent enrichment run (queue batch, summarize-by-id, manual summarize)
\* moves it back to pending, analyzing or failed.
C35_CompletedStaysCompleted ==
    [][\A b \in Done : status'[b] = "completed"]_vars

\* invocations waiting for the provider: between the write of 'analyzing'
\* and the return (or throw) of aiService.summarize
Summarizing == {r \in Runs : pc[r] = "enrich"}

\* C36: at most one call to the summarize collaborator is outstanding at any
\* time, across batch runs and summarize-by-id calls, so the same bookmark is
\* never enriched by two runs at once.
C36_OneSummarizeOutstanding ==
    Cardinality(Summarizing) <= 1

\* a batch run (alarm, start request or startup resume) writes 'analyzing'
BatchAnalyzes ==
    \E r \in Runs :
        /\ kind[r] \in {"batch", "init"}
        /\ pc[r] = "analyzing"
        /\ pc'[r] = "enrich"

\* the alarm 'summarize-next' is created
Arms == ~alarm /\ alarm'

\* C37: after stopSummarizationQueue has completed, no further bookmark is
\* moved to analyzing by a batch run and the trigger is not armed again until
\* startSummarizationQueue is called, even if a batch was in flight when stop
\* was requested.
C37_StopPauses ==
    [][stopped => (~BatchAnalyzes /\ ~Arms)]_vars

\* the invocations of handleToggleSearch that finish in this step
Finishing == {r \in Toggling : togglePc'[r] = "idle"}

\* C39: toggle commands never execute concurrently; a command arriving while
\* a toggle is in flight is not lost: when the toggle in flight finishes, one
\* further toggle is scheduled however many commands arrived meanwhile; and
\* the lock is released on every exit path.
C39_SerialBufferedToggles ==
    /\ [](Cardinality(Toggling) <= 1)
    /\ [](isToggling <=> Toggling # {})
    /\ [](unserved => (pendingToggle \/ toggleTimers > 0))
    /\ [][Finishing # {} =>
            /\ ~isToggling'
            /\ ~pendingToggle'
            /\ toggleTimers' = toggleTimers + (IF pendingToggle THEN 1 ELSE 0)]_vars

\* the toggle in flight has finished with commands buffered behind it and
\* one further toggle is scheduled
C39_Witness ==
    /\ Toggling = {}
    /\ unserved
    /\ toggleTimers = 1
    /\ ~pendingToggle

\* the fetches between activeTabCount++ and activeTabCount--
HoldingSlot ==
    {f \in Fetches : fetchPc[f] \in {"create", "load", "challenge", "finally", "release"}}

\* the fetches that wait in the loop of fetchViaTab
WaitingForSlot == {f \in Fetches : fetchPc[f] = "fetchViaTab"}

\* the fetches whose finally block has closed the tab, or that have returned
PastRemove == {f \in Fetches : fetchPc[f] \in {"release", "returned", "idle"}}

\* C38: every tab-fallback fetch releases its slot and closes its tab on
\* every exit path: the active-tab counter equals the number of fetches
\* holding a slot, never goes below 0 and is 0 once all fetches have
\* finished, so a waiting fetch is only ever held back by fetches that still
\* hold a slot.
C38_SlotsAndTabsReleased ==
    /\ activeTabCount = Cardinality(HoldingSlot)
    /\ activeTabCount >= 0
    /\ \A f \in PastRemove : f \notin openTabs
    /\ (HoldingSlot = {}) => (activeTabCount = 0 /\ openTabs = {})
    /\ \A f \in WaitingForSlot :
          ~mayOpen(activeTabCount) => Cardinality(HoldingSlot) >= MAX_CONCURRENT_TABS

\* every fetch has returned, one of them from the tab fallback without
\* content (fetchViaHttp gave nothing, then an exit path of fetchViaTab that
\* returns null), and the counter is back at 0 with no tab left open
C38_Witness ==
    /\ \A f \in Fetches : fetchPc[f] = "returned" /\ fetchUrl[f].isHttp
    /\ \E f \in Fetches : fetchReturn[f] = NoText
    /\ activeTabCount = 0
    /\ openTabs = {}
====
